---- MODULE Spec2Model ----
(***************************************************************************)
(* Decorator-driven routing layer of mini2-core: the metadata registry     *)
(* (httpMethod / RouteRegistry), the router builder                        *)
(* (buildRouterFromController), the validation and auth middleware and the *)
(* boundary error handler, as state machines.                              *)
(*                                                                         *)
(* Conventions.  An optional JavaScript value is <<>> (undefined) or <<v>>.*)
(* A JavaScript string that the code inspects character by character       *)
(* (header values, permission names) is a sequence of one-character        *)
(* strings.  An absent array field is the empty sequence, which is what    *)
(* every read of it in the code ("?? []", ".length") treats it as.         *)
(***************************************************************************)
EXTENDS Integers, Sequences, FiniteSets, TLC

None == <<>>
Some(v) == <<v>>
IsSome(o) == o /= None
ValueOf(o) == o[1]

\* a ?? b
Coalesce(a, b) == IF a /= None THEN a ELSE b

Range(s) == {s[i] : i \in 1..Len(s)}

RECURSIVE UnifyFrom(_, _)
UnifyFrom(array, seen) ==
    IF array = <<>> THEN <<>>
    ELSE IF Head(array) \in seen THEN UnifyFrom(Tail(array), seen)
    ELSE <<Head(array)>> \o UnifyFrom(Tail(array), seen \cup {Head(array)})

\* [...new Set([...array])]: first occurrences, in insertion order
ArrayUnify(array) == UnifyFrom(array, {})

(***************************************************************************)
(* Bounds and input domains of the decoration phase                        *)
(***************************************************************************)
MaxDecorations == 3

Slots == {"req", "res", "next", "body", "query", "params", "headers"}
DataSlots == {"params", "query", "body", "headers"}

Methods == {"m1", "m2"}
\* the method the decoration phase decorates
DecorMethods == {"m1"}
\* the parameter slots the decoration phase decorates
DecorSlots == {"req", "body", "headers"}
Verbs == {"get", "post"}
Paths == {"/a", ""}
Names == {"n"}
ParamIndexes == {0, 1}
PermissionNames == {<<"a">>, <<"b">>}
PermissionLists == {<<<<"a">>>>, <<<<"b">>>>, <<<<"a">>, <<"b">>>>}
HandlerNames == {"mwNext", "mwRespond", "mwError"}
DecorHandlers == {"mwNext", "mwRespond"}
Orders == {0, 1}

\* validation classes (schemas); each IValidation object has an identity
NoClass == "none"
ValidationSpec(id, p, q, b, h) ==
    [id |-> id, params |-> p, query |-> q, body |-> b, headers |-> h]
SpecBody == ValidationSpec("vBody", NoClass, NoClass, "Strict", NoClass)
SpecParamsBody == ValidationSpec("vParamsBody", "Strict", NoClass, "Lenient", NoClass)
SpecHeaders == ValidationSpec("vHeaders", NoClass, NoClass, NoClass, "Strict")
SpecBody2 == ValidationSpec("vBody2", NoClass, NoClass, "Strict", NoClass)
ValidationLists ==
    {<<SpecBody>>, <<SpecParamsBody, SpecBody>>}

(***************************************************************************)
(* RouteOptions / RouteDefinition                                          *)
(***************************************************************************)
EmptyOptions ==
    [method |-> None, path |-> None, name |-> None, authenticated |-> None,
     validations |-> <<>>, permissions |-> <<>>, otherHttpMiddlewares |-> <<>>]

NoIndices == [s \in Slots |-> None]

NewRoute(methodName) ==
    [methodName |-> methodName, validations |-> <<>>, permissions |-> <<>>,
     otherHttpMiddlewares |-> <<>>, parameterIndices |-> NoIndices,
     method |-> None, path |-> None, name |-> None, authenticated |-> None]

EmptyDefinitions ==
    [basePath |-> "", controllerName |-> None, moduleName |-> None, routes |-> <<>>]

VARIABLES
    routeOptionsMeta,   \* Reflect metadata keyOfRouteOptions, per method
    paramMeta,          \* Reflect metadata keyOfReq .. keyOfHeaders, per method and slot
    pathMeta,           \* Reflect metadata keyOfPath of the class
    routeDefinitions,   \* ctor.__routeDefinitions, None until first touched
    nextId,             \* identities handed to objects created by decorators
    applied,            \* history: the decorator applications made so far
    router,             \* the routes registered with the express.Router of the build
    buildState,         \* "none", "built" or "threw": outcome of buildApp
    mounted,            \* app.use(controllerPath, router) has run
    guard,              \* a guard called on its own: its inputs and its outcome
    req,                \* per request: the express Request as the chain sees it
    res,                \* per request: the express Response
    pc,                 \* per request: where its dispatch stands
    call                \* per request: the invocation of the controller method

decorVars == <<routeOptionsMeta, paramMeta, pathMeta, routeDefinitions, nextId, applied>>
buildVars == <<router, buildState, mounted>>
guardVars == <<guard>>
serveVars == <<req, res, pc, call>>

VARIABLES
    server,             \* App.server: "none" or "listening"
    traffic,            \* a connection has been accepted by the server
    instances,          \* number of controller instances constructed
    builds              \* number of buildApp calls made on them

VARIABLES
    ownDefinitions,     \* per class: its own __routeDefinitions property, an object id
    heap,               \* the RouteDefinitions objects, by object id
    defining,           \* the class whose definition is being evaluated
    defined             \* the classes whose definition has been evaluated

VARIABLES
    inflight            \* requests served concurrently: per request id its state

appVars == <<server, traffic, instances, builds>>
VARIABLES
    contexts,           \* the context objects made so far, by identity
    latest,             \* per context object, the value most recently set per key
    tasks,              \* the asynchronous executions, each with its store
    generated,          \* how many trace ids generateTraceId has returned
    traces,             \* per request through contextMiddleware: header, ids, context
    calls,              \* how many setContextValue calls were made
    lastCall            \* the most recent setContextValue call and how it ended

flightVars == <<inflight>>
contextVars == <<contexts, latest, tasks, generated, traces, calls, lastCall>>
registryVars == <<ownDefinitions, heap, defining, defined>>
VARIABLES
    extraData,          \* the extraData map of method m1's route options, per key
    lastCustom,         \* the latest custom(key, value) applied and the value it met
    customError         \* what a custom decorator threw, if one did

customVars == <<extraData, lastCustom, customError>>

VARIABLES
    discovered,         \* globalThis[DISCOVERY_KEY]: the entries pushed by autoBind
    bindings,           \* the bindings of the container, in the order they were made
    bindCalls           \* number of bindDiscovered calls made

containerVars == <<discovered, bindings, bindCalls>>

otherVars == <<appVars, registryVars, flightVars, contextVars, customVars, containerVars>>
vars == <<decorVars, buildVars, guardVars, serveVars, otherVars>>

\* the parts of the program a run does not touch, as they are at start
OtherIdle ==
    /\ server = "none"
    /\ traffic = FALSE
    /\ instances = 0
    /\ builds = 0
    /\ ownDefinitions = [c \in {"A", "B", "C"} |-> None]
    /\ heap = <<>>
    /\ defining = None
    /\ defined = {}
    /\ inflight = <<>>
    /\ contexts = <<>> /\ latest = <<>> /\ tasks = <<>> /\ generated = 0 /\ traces = <<>>
    /\ calls = 0 /\ lastCall = None
    /\ extraData = [k \in {"k1", "k2"} |-> None] /\ lastCustom = None /\ customError = None
    /\ discovered = <<>> /\ bindings = <<>> /\ bindCalls = 0

(***************************************************************************)
(* RouteRegistry                                                           *)
(***************************************************************************)
\* a registry that makes a new entry at every call
GetRouteDefinitionsAnew(defs) == EmptyDefinitions

\* getRouteDefinitions: the class's entry, created empty on first use
GetRouteDefinitions(defs) == IF defs = None THEN EmptyDefinitions ELSE ValueOf(defs)

\* defs.routes.find((r) => r.methodName === methodName): its position, 0 when absent
RouteIndex(defs, methodName) ==
    LET hits == {i \in 1..Len(defs.routes) : defs.routes[i].methodName = methodName}
    IN IF hits = {} THEN 0 ELSE CHOOSE i \in hits : \A j \in hits : i <= j

HasRoute(defs, methodName) == RouteIndex(defs, methodName) /= 0

\* getOrCreateRoute without the lookup of an existing entry
GetOrCreateRouteAlwaysAppends(defs, methodName) ==
    [defs EXCEPT !.routes = Append(@, NewRoute(methodName))]

GetOrCreateRoute(defs, methodName) ==
    IF HasRoute(defs, methodName) THEN defs
    ELSE [defs EXCEPT !.routes = Append(@, NewRoute(methodName))]

SetBasePath(defs, basePath, controllerName, moduleName) ==
    [defs EXCEPT !.basePath = basePath,
                 !.controllerName = Coalesce(controllerName, @),
                 !.moduleName = Coalesce(moduleName, @)]

\* updateRoute with the guards of the collection merges inverted
MergeIntoRouteInvertedGuard(route, updates) ==
    [route EXCEPT
        !.validations =
            IF updates.validations = <<>> THEN @ \o updates.validations ELSE @,
        !.permissions =
            IF updates.permissions = <<>>
            THEN ArrayUnify(@ \o updates.permissions) ELSE @,
        !.otherHttpMiddlewares =
            IF updates.otherHttpMiddlewares = <<>>
            THEN ArrayUnify(@ \o updates.otherHttpMiddlewares) ELSE @,
        !.method = Coalesce(updates.method, @),
        !.path = Coalesce(updates.path, @),
        !.name = Coalesce(updates.name, @),
        !.authenticated = Coalesce(updates.authenticated, @)]

\* the body of updateRoute after the route has been found
MergeIntoRoute(route, updates) ==
    [route EXCEPT
        !.validations =
            IF updates.validations /= <<>> THEN @ \o updates.validations ELSE @,
        !.permissions =
            IF updates.permissions /= <<>>
            THEN ArrayUnify(@ \o updates.permissions) ELSE @,
        !.otherHttpMiddlewares =
            IF updates.otherHttpMiddlewares /= <<>>
            THEN ArrayUnify(@ \o updates.otherHttpMiddlewares) ELSE @,
        !.method = Coalesce(updates.method, @),
        !.path = Coalesce(updates.path, @),
        !.name = Coalesce(updates.name, @),
        !.authenticated = Coalesce(updates.authenticated, @)]

UpdateRoute(defs, methodName, updates) ==
    LET d == GetOrCreateRoute(defs, methodName)
        i == RouteIndex(d, methodName)
    IN [d EXCEPT !.routes[i] = MergeIntoRoute(@, updates)]

SetParameterIndex(defs, methodName, slot, index) ==
    LET d == GetOrCreateRoute(defs, methodName)
        i == RouteIndex(d, methodName)
    IN [d EXCEPT !.routes[i].parameterIndices[slot] = Some(index)]

(***************************************************************************)
(* Decorators                                                              *)
(***************************************************************************)
\* httpMethod with the existing value of a scalar taking precedence over the new one
MergeOptionsExistingWins(newOptions, existingOptions) ==
    [method |-> Coalesce(existingOptions.method, newOptions.method),
     path |-> Coalesce(existingOptions.path, newOptions.path),
     validations |->
        ArrayUnify(newOptions.validations \o existingOptions.validations),
     permissions |->
        ArrayUnify(newOptions.permissions \o existingOptions.permissions),
     authenticated |->
        IF existingOptions.authenticated /= None
        THEN existingOptions.authenticated ELSE newOptions.authenticated,
     otherHttpMiddlewares |->
        ArrayUnify(newOptions.otherHttpMiddlewares
                   \o existingOptions.otherHttpMiddlewares),
     name |-> Coalesce(existingOptions.name, newOptions.name)]

\* httpMethod with the stored entries of a collection in front of the new ones
MergeOptionsExistingFirst(newOptions, existingOptions) ==
    [method |-> Coalesce(newOptions.method, existingOptions.method),
     path |-> Coalesce(newOptions.path, existingOptions.path),
     validations |->
        ArrayUnify(existingOptions.validations \o newOptions.validations),
     permissions |->
        ArrayUnify(existingOptions.permissions \o newOptions.permissions),
     authenticated |->
        IF newOptions.authenticated /= None
        THEN newOptions.authenticated ELSE existingOptions.authenticated,
     otherHttpMiddlewares |->
        ArrayUnify(existingOptions.otherHttpMiddlewares
                   \o newOptions.otherHttpMiddlewares),
     name |-> Coalesce(newOptions.name, existingOptions.name)]

\* httpMethod, lines 211-276: the RouteOptions written back to the metadata
MergeOptions(newOptions, existingOptions) ==
    [method |-> Coalesce(newOptions.method, existingOptions.method),
     path |-> Coalesce(newOptions.path, existingOptions.path),
     validations |->
        ArrayUnify(newOptions.validations \o existingOptions.validations),
     permissions |->
        ArrayUnify(newOptions.permissions \o existingOptions.permissions),
     authenticated |->
        IF newOptions.authenticated /= None
        THEN newOptions.authenticated ELSE existingOptions.authenticated,
     otherHttpMiddlewares |->
        ArrayUnify(newOptions.otherHttpMiddlewares
                   \o existingOptions.otherHttpMiddlewares),
     name |-> Coalesce(newOptions.name, existingOptions.name)]

\* get / post / put / del / patch
VerbOptions(verb, path, name) ==
    [EmptyOptions EXCEPT !.path = Some(path), !.method = Some(verb),
                         !.name = Some(ValueOf(Coalesce(name, Some(path))))]
ValidateOptions(options) == [EmptyOptions EXCEPT !.validations = options]
AuthenticatedOptions(value) == [EmptyOptions EXCEPT !.authenticated = Some(value)]
AuthorizedOptions(value) == [EmptyOptions EXCEPT !.permissions = value]
\* middleware(mw, isPre, order): a fresh entry object per application
MiddlewareEntry(id, mw, isPre, order) ==
    [id |-> id, handler |-> mw,
     isPre |-> IF isPre = None THEN FALSE ELSE ValueOf(isPre),
     order |-> IF order = None THEN 0 ELSE ValueOf(order)]
MiddlewareOptions(entry) == [EmptyOptions EXCEPT !.otherHttpMiddlewares = <<entry>>]

(***************************************************************************)
(* The decoration state as one value, so that the decorators can be        *)
(* applied both step by step and in a row                                  *)
(***************************************************************************)
Undecorated ==
    [routeOptionsMeta |-> [m \in Methods |-> None],
     paramMeta |-> [m \in Methods |-> NoIndices],
     pathMeta |-> None,
     routeDefinitions |-> None,
     nextId |-> 1,
     applied |-> <<>>]

Decorated ==
    [routeOptionsMeta |-> routeOptionsMeta, paramMeta |-> paramMeta,
     pathMeta |-> pathMeta, routeDefinitions |-> routeDefinitions,
     nextId |-> nextId, applied |-> applied]

SetDecorated(d) ==
    /\ routeOptionsMeta' = d.routeOptionsMeta
    /\ paramMeta' = d.paramMeta
    /\ pathMeta' = d.pathMeta
    /\ routeDefinitions' = d.routeDefinitions
    /\ nextId' = d.nextId
    /\ applied' = d.applied

\* httpMethod(newOptions) applied to method propertyKey
HttpMethod(d, propertyKey, newOptions) ==
    LET existingOptions ==
            IF d.routeOptionsMeta[propertyKey] = None THEN EmptyOptions
            ELSE ValueOf(d.routeOptionsMeta[propertyKey])
        mergedOptions == MergeOptions(newOptions, existingOptions)
    IN [d EXCEPT
          !.routeOptionsMeta[propertyKey] = Some(mergedOptions),
          !.routeDefinitions =
              Some(UpdateRoute(GetRouteDefinitions(d.routeDefinitions), propertyKey,
                               mergedOptions)),
          !.applied = Append(@, [on |-> propertyKey, options |-> newOptions])]

\* middleware(mw, isPre, order) applied to method propertyKey
Middleware(d, propertyKey, mw, isPre, order) ==
    [HttpMethod(d, propertyKey,
                MiddlewareOptions(MiddlewareEntry(d.nextId, mw, isPre, order)))
        EXCEPT !.nextId = @ + 1]

\* req() .. headers(): a parameter decorator at position index
Parameter(d, propertyKey, slot, index) ==
    [d EXCEPT
        !.paramMeta[propertyKey][slot] = Some(index),
        !.routeDefinitions =
            Some(SetParameterIndex(GetRouteDefinitions(d.routeDefinitions),
                                   propertyKey, slot, index)),
        !.applied = Append(@, [on |-> propertyKey, options |-> EmptyOptions])]

\* controller(path, name, moduleName)
Controller(d, path, name, moduleName) ==
    LET resolvedName == ValueOf(Coalesce(name, Some(path)))
        resolvedModuleName == ValueOf(Coalesce(moduleName, Some(resolvedName)))
    IN [d EXCEPT
          !.pathMeta = Some(path),
          !.routeDefinitions =
              Some(SetBasePath(GetRouteDefinitions(d.routeDefinitions), path,
                               Some(resolvedName), Some(resolvedModuleName))),
          !.applied = Append(@, [on |-> "class", options |-> EmptyOptions])]

Decorations == Len(applied)

DecorateVerb ==
    \E m \in DecorMethods, verb \in Verbs, path \in Paths,
       name \in {None} \cup {Some(n) : n \in Names} :
        /\ Decorations < MaxDecorations
        /\ SetDecorated(HttpMethod(Decorated, m, VerbOptions(verb, path, name)))
        /\ UNCHANGED <<buildVars, guardVars, serveVars, otherVars>>

DecorateValidate ==
    \E m \in DecorMethods, options \in ValidationLists :
        /\ Decorations < MaxDecorations
        /\ SetDecorated(HttpMethod(Decorated, m, ValidateOptions(options)))
        /\ UNCHANGED <<buildVars, guardVars, serveVars, otherVars>>

DecorateAuthenticated ==
    \E m \in DecorMethods, value \in BOOLEAN :
        /\ Decorations < MaxDecorations
        /\ SetDecorated(HttpMethod(Decorated, m, AuthenticatedOptions(value)))
        /\ UNCHANGED <<buildVars, guardVars, serveVars, otherVars>>

DecorateAuthorized ==
    \E m \in DecorMethods, value \in PermissionLists :
        /\ Decorations < MaxDecorations
        /\ SetDecorated(HttpMethod(Decorated, m, AuthorizedOptions(value)))
        /\ UNCHANGED <<buildVars, guardVars, serveVars, otherVars>>

DecorateMiddleware ==
    \E m \in DecorMethods, mw \in DecorHandlers, isPre \in {None, Some(TRUE)} :
        /\ Decorations < MaxDecorations
        /\ SetDecorated(Middleware(Decorated, m, mw, isPre, None))
        /\ UNCHANGED <<buildVars, guardVars, serveVars, otherVars>>

DecorateParameter ==
    \E m \in DecorMethods, slot \in DecorSlots, i \in ParamIndexes :
        /\ Decorations < MaxDecorations
        /\ SetDecorated(Parameter(Decorated, m, slot, i))
        /\ UNCHANGED <<buildVars, guardVars, serveVars, otherVars>>

DecorateController ==
    \E path \in {"/c", ""} :
        /\ Decorations < MaxDecorations
        /\ pathMeta = None
        /\ SetDecorated(Controller(Decorated, path, None, None))
        /\ UNCHANGED <<buildVars, guardVars, serveVars, otherVars>>

NotBuilt ==
    /\ router = <<>>
    /\ buildState = "none"
    /\ mounted = FALSE

DecorInit ==
    /\ routeOptionsMeta = Undecorated.routeOptionsMeta
    /\ paramMeta = Undecorated.paramMeta
    /\ pathMeta = Undecorated.pathMeta
    /\ routeDefinitions = Undecorated.routeDefinitions
    /\ nextId = Undecorated.nextId
    /\ applied = Undecorated.applied
    /\ NotBuilt
    /\ guard = None
    /\ req = None /\ res = None /\ pc = None /\ call = None
    /\ OtherIdle

DecorNext ==
    \/ DecorateVerb
    \/ DecorateValidate
    \/ DecorateAuthenticated
    \/ DecorateAuthorized
    \/ DecorateMiddleware
    \/ DecorateParameter
    \/ DecorateController

SpecDecor == DecorInit /\ [][DecorNext]_vars

(***************************************************************************)
(* Decoration of several methods of one class                              *)
(***************************************************************************)
\* a verb decorator on any method of the class
DecorateMethod ==
    \E m \in Methods, verb \in Verbs :
        /\ Decorations < MaxDecorations
        /\ SetDecorated(HttpMethod(Decorated, m, VerbOptions(verb, "/a", None)))
        /\ UNCHANGED <<buildVars, guardVars, serveVars, otherVars>>

\* a parameter decorator on any method of the class
DecorateArgument ==
    \E m \in Methods, slot \in {"body", "req"} :
        /\ Decorations < MaxDecorations
        /\ SetDecorated(Parameter(Decorated, m, slot, 0))
        /\ UNCHANGED <<buildVars, guardVars, serveVars, otherVars>>

RoutesNext ==
    \/ DecorateMethod
    \/ DecorateArgument

SpecRoutes == DecorInit /\ [][RoutesNext]_vars

(***************************************************************************)
(* custom(key, value): extra data of a route                               *)
(***************************************************************************)
ExtraKeys == {"k1", "k2"}

\* a value given to custom: an array, a plain object (its own properties as
\* name/value pairs), or something else; items are the elements an iteration
\* of the value yields
ExtraValue(kind, items, fields) == [kind |-> kind, items |-> items, fields |-> fields]
ArrayValue(items) == ExtraValue("array", items, {})
PlainObject(fields) == ExtraValue("object", <<>>, fields)
StringValue(chars) == ExtraValue("string", chars, {})
NumberValue == ExtraValue("number", <<>>, {})
NullValue == ExtraValue("null", <<>>, {})
\* an object whose prototype is not Object.prototype
DateValue == ExtraValue("date", <<>>, {})

ExtraValues ==
    {ArrayValue(<<"a">>), ArrayValue(<<"b", "a">>),
     PlainObject({<<"x", "1">>}), PlainObject({<<"x", "2">>, <<"y", "1">>}),
     StringValue(<<"a", "c">>), NumberValue, NullValue, DateValue}

\* Array.isArray(v)
IsArray(v) == v.kind = "array"
\* v !== null && typeof v === 'object' && Object.getPrototypeOf(v) === Object.prototype
IsPlainObject(v) == v.kind = "object"
\* what the spread ...(v) inside an array literal accepts
IsIterable(v) == v.kind \in {"array", "string"}

\* { ...currentValue, ...newValue }
ShallowMerge(currentFields, newFields) ==
    {f \in currentFields : \A g \in newFields : g[1] /= f[1]} \cup newFields

TypeError == "TypeError"

\* lines 239-263: the value of one key after the merge, or what the merge throws
MergeExtra(currentValue, newValue) ==
    IF currentValue = None THEN [value |-> Some(newValue), thrown |-> None]
    ELSE IF IsArray(ValueOf(currentValue))
    THEN IF IsIterable(newValue)
         THEN [value |-> Some(ArrayValue(ArrayUnify(ValueOf(currentValue).items
                                                    \o newValue.items))),
               thrown |-> None]
         ELSE [value |-> currentValue, thrown |-> Some(TypeError)]
    ELSE IF IsPlainObject(ValueOf(currentValue)) /\ IsPlainObject(newValue)
    THEN [value |-> Some(PlainObject(ShallowMerge(ValueOf(currentValue).fields,
                                                  newValue.fields))),
          thrown |-> None]
    ELSE [value |-> Some(newValue), thrown |-> None]

\* @custom(key, value) on method m1: httpMethod({ extraData }); a throw leaves
\* the metadata and the registry as they were and ends the class definition
DecorateCustom ==
    \E key \in ExtraKeys, value \in ExtraValues :
        LET merged == MergeExtra(extraData[key], value)
        IN /\ Decorations < MaxDecorations
           /\ customError = None
           /\ lastCustom' = Some([key |-> key, value |-> value, met |-> extraData[key]])
           /\ customError' = merged.thrown
           /\ extraData' = [extraData EXCEPT ![key] = merged.value]
           /\ IF merged.thrown = None
              THEN SetDecorated(HttpMethod(Decorated, "m1", EmptyOptions))
              ELSE UNCHANGED decorVars
           /\ UNCHANGED <<buildVars, guardVars, serveVars, appVars, registryVars,
                          flightVars, contextVars, containerVars>>

CustomNext == DecorateCustom

SpecCustom == DecorInit /\ [][CustomNext]_vars

(***************************************************************************)
(* The container: autoBind and bindDiscovered                              *)
(***************************************************************************)
MaxDiscovered == 2
MaxBindCalls == 2

Tokens == {"IController", "IService"}
BoundClasses == {"K1", "K2"}
Scopes == {"Singleton", "Transient", "Request"}
Priorities == {0, 1}

DiscoveredBinding(token, target, scope, priority) ==
    [token |-> token, target |-> target, scope |-> scope, priority |-> priority]

\* container.isBound(token)
IsBound(bound, token) == \E j \in 1..Len(bound) : bound[j].token = token

\* container.bind(token).to(target) and the scope call
Bind(bound, b) == Append(bound, [token |-> b.token, target |-> b.target, scope |-> b.scope])

\* container.getAll(token): one resolution per binding of the token
GetAll(bound, token) ==
    LET hits == SelectSeq(bound, LAMBDA x : x.token = token)
    IN [j \in 1..Len(hits) |-> hits[j].target]

\* reg.sort((a, b) => a.priority - b.priority), which is stable and in place
RECURSIVE InsertByPriority(_, _)
InsertByPriority(sorted, item) ==
    IF sorted = <<>> THEN <<item>>
    ELSE IF Head(sorted).priority <= item.priority
         THEN <<Head(sorted)>> \o InsertByPriority(Tail(sorted), item)
         ELSE <<item>> \o sorted

RECURSIVE SortByPriority(_)
SortByPriority(items) ==
    IF items = <<>> THEN <<>>
    ELSE InsertByPriority(SortByPriority(SubSeq(items, 1, Len(items) - 1)),
                          items[Len(items)])

\* the loop of bindDiscovered over the sorted registry
RECURSIVE BindEach(_, _)
BindEach(reg, bound) ==
    IF reg = <<>> THEN bound
    ELSE LET b == Head(reg)
         IN IF IsBound(bound, b.token) /\ b.scope = "Singleton"
            THEN BindEach(Tail(reg), bound)
            ELSE BindEach(Tail(reg), Bind(bound, b))

ContainerFrame ==
    UNCHANGED <<decorVars, buildVars, guardVars, serveVars, appVars, registryVars,
                flightVars, contextVars, customVars>>

\* @autoBind(token, { scope, priority }) on a class that has not been
\* decorated yet; @controller under MINI_AUTOLOAD is
\* autoBind(IController, { scope: 'Transient' })
AutoBind ==
    \E token \in Tokens, target \in BoundClasses, scope \in Scopes,
       priority \in Priorities :
        /\ Len(discovered) < MaxDiscovered
        /\ \A i \in 1..Len(discovered) : discovered[i].target /= target
        /\ discovered' = Append(discovered,
                                DiscoveredBinding(token, target, scope, priority))
        /\ UNCHANGED <<bindings, bindCalls>>
        /\ ContainerFrame

BindDiscovered ==
    /\ bindCalls < MaxBindCalls
    /\ discovered' = SortByPriority(discovered)
    /\ bindings' = BindEach(SortByPriority(discovered), bindings)
    /\ bindCalls' = bindCalls + 1
    /\ ContainerFrame

ContainerNext ==
    \/ AutoBind
    \/ BindDiscovered

SpecContainer == DecorInit /\ [][ContainerNext]_vars

(***************************************************************************)
(* buildRouterFromController / buildApp                                    *)
(***************************************************************************)
\* the order in which the slots of one validation spec are visited
ValidationOrder == <<"params", "query", "body", "headers">>

\* Object.getOwnPropertyNames(proto), the methods in definition order
AllProperties == <<"m1", "m2">>

\* the parameter metadata the handler wrapper reads (lines 459-464)
MarshalledSlots == {"req", "res", "next", "body", "query", "params"}

\* !x for an optional string
Falsy(o) == o = None \/ ValueOf(o) = ""

\* one RequestHandler of a chain; id tells apart functions created separately
Stage(kind, id, handler, cls, slot, required, argIndex) ==
    [kind |-> kind, id |-> id, handler |-> handler, cls |-> cls, slot |-> slot,
     required |-> required, argIndex |-> argIndex]

MiddlewareStage(entry) ==
    Stage("middleware", entry.id, entry.handler, NoClass, "", <<>>, NoIndices)
\* validationMiddleware(validationClass, t, ...): a new function at every call
ValidationStage(id, cls, slot) ==
    Stage("validation", id, "", cls, slot, <<>>, NoIndices)
AuthenticatedStage == Stage("authenticated", 0, "", NoClass, "", <<>>, NoIndices)
AuthorizedStage(required) ==
    Stage("authorized", 0, "", NoClass, "", required, NoIndices)
HandlerStage(argIndex) == Stage("handler", 0, "", NoClass, "", <<>>, argIndex)

PushOnce(arr, mw) == IF mw \in Range(arr) THEN arr ELSE Append(arr, mw)

\* lines 420-435: for (const v of validations) for (const t of order) ...
RECURSIVE ValidationStepsFrom(_, _, _, _)
ValidationStepsFrom(validations, i, k, arr) ==
    IF i > Len(validations) THEN arr
    ELSE IF k > Len(ValidationOrder) THEN ValidationStepsFrom(validations, i + 1, 1, arr)
    ELSE LET t == ValidationOrder[k]
             validationClass == validations[i][t]
         IN IF validationClass = NoClass
            THEN ValidationStepsFrom(validations, i, k + 1, arr)
            ELSE ValidationStepsFrom(validations, i, k + 1,
                    PushOnce(arr, ValidationStage((i - 1) * Len(ValidationOrder) + k,
                                                  validationClass, t)))

ValidationMiddlewares(validations) == ValidationStepsFrom(validations, 1, 1, <<>>)

\* a sort that puts an item in front of the items of equal order
RECURSIVE InsertBeforeEqual(_, _)
InsertBeforeEqual(sorted, item) ==
    IF sorted = <<>> THEN <<item>>
    ELSE IF Head(sorted).order < item.order
         THEN <<Head(sorted)>> \o InsertBeforeEqual(Tail(sorted), item)
         ELSE <<item>> \o sorted

\* Array.prototype.sort((x, y) => x.order - y.order), which is stable
RECURSIVE InsertByOrder(_, _)
InsertByOrder(sorted, item) ==
    IF sorted = <<>> THEN <<item>>
    ELSE IF Head(sorted).order <= item.order
         THEN <<Head(sorted)>> \o InsertByOrder(Tail(sorted), item)
         ELSE <<item>> \o sorted

RECURSIVE SortByOrder(_)
SortByOrder(items) ==
    IF items = <<>> THEN <<>>
    ELSE InsertByOrder(SortByOrder(SubSeq(items, 1, Len(items) - 1)), items[Len(items)])

IsPre(item) == item.isPre
IsNormal(item) == ~item.isPre

MapStages(items) == [i \in 1..Len(items) |-> MiddlewareStage(items[i])]

\* chain with authentication and authorization placed after the normal middlewares
RouteChainGuardsLast(routeOptions, argIndex) ==
    MapStages(SortByOrder(SelectSeq(routeOptions.otherHttpMiddlewares, IsPre)))
    \o ValidationMiddlewares(routeOptions.validations)
    \o MapStages(SelectSeq(routeOptions.otherHttpMiddlewares, IsNormal))
    \o (IF routeOptions.authenticated = Some(TRUE) THEN <<AuthenticatedStage>> ELSE <<>>)
    \o (IF routeOptions.permissions /= <<>>
        THEN <<AuthorizedStage(routeOptions.permissions)>> ELSE <<>>)
    \o <<HandlerStage(argIndex)>>

\* chain with the two guards placed in front of the validation steps
RouteChainGuardsFirst(routeOptions, argIndex) ==
    MapStages(SortByOrder(SelectSeq(routeOptions.otherHttpMiddlewares, IsPre)))
    \o (IF routeOptions.authenticated = Some(TRUE) THEN <<AuthenticatedStage>> ELSE <<>>)
    \o (IF routeOptions.permissions /= <<>>
        THEN <<AuthorizedStage(routeOptions.permissions)>> ELSE <<>>)
    \o ValidationMiddlewares(routeOptions.validations)
    \o MapStages(SelectSeq(routeOptions.otherHttpMiddlewares, IsNormal))
    \o <<HandlerStage(argIndex)>>

\* lines 437-454 and 502-506: the handlers registered for one route, in order
RouteChain(routeOptions, argIndex) ==
    MapStages(SortByOrder(SelectSeq(routeOptions.otherHttpMiddlewares, IsPre)))
    \o ValidationMiddlewares(routeOptions.validations)
    \o (IF routeOptions.authenticated = Some(TRUE) THEN <<AuthenticatedStage>> ELSE <<>>)
    \o (IF routeOptions.permissions /= <<>>
        THEN <<AuthorizedStage(routeOptions.permissions)>> ELSE <<>>)
    \o MapStages(SelectSeq(routeOptions.otherHttpMiddlewares, IsNormal))
    \o <<HandlerStage(argIndex)>>

(***************************************************************************)
(* The earlier builder of rest.ts, on the same route options               *)
(***************************************************************************)
\* rest.ts 164-176: the slots of one validation spec in the order visited
RestValidationOrder == <<"body", "params", "query">>

\* rest.ts 161-178: one step per spec and slot, pushed without a membership test
RECURSIVE RestValidationStepsFrom(_, _, _, _)
RestValidationStepsFrom(validations, i, k, arr) ==
    IF i > Len(validations) THEN arr
    ELSE IF k > Len(RestValidationOrder)
    THEN RestValidationStepsFrom(validations, i + 1, 1, arr)
    ELSE LET t == RestValidationOrder[k]
             validationClass == validations[i][t]
         IN IF validationClass = NoClass
            THEN RestValidationStepsFrom(validations, i, k + 1, arr)
            ELSE RestValidationStepsFrom(validations, i, k + 1,
                    Append(arr, ValidationStage((i - 1) * Len(RestValidationOrder) + k,
                                                validationClass, t)))

\* a builder that puts the validation steps in front of the guards
RestRouteChainValidationFirst(routeOptions, argIndex) ==
    RestValidationStepsFrom(routeOptions.validations, 1, 1, <<>>)
    \o (IF routeOptions.authenticated = Some(TRUE) THEN <<AuthenticatedStage>> ELSE <<>>)
    \o (IF routeOptions.permissions /= <<>>
        THEN <<AuthorizedStage(routeOptions.permissions)>> ELSE <<>>)
    \o MapStages(routeOptions.otherHttpMiddlewares)
    \o <<HandlerStage(argIndex)>>

\* rest.ts 179-193 and 235-239: the handlers registered for one route, in order
RestRouteChain(routeOptions, argIndex) ==
    (IF routeOptions.authenticated = Some(TRUE) THEN <<AuthenticatedStage>> ELSE <<>>)
    \o (IF routeOptions.permissions /= <<>>
        THEN <<AuthorizedStage(routeOptions.permissions)>> ELSE <<>>)
    \o MapStages(routeOptions.otherHttpMiddlewares)
    \o RestValidationStepsFrom(routeOptions.validations, 1, 1, <<>>)
    \o <<HandlerStage(argIndex)>>

RegisteredRoute(property, routeOptions, chain) ==
    [property |-> property, method |-> ValueOf(routeOptions.method),
     path |-> ValueOf(routeOptions.path), chain |-> chain]

\* the loop over the properties that registers a route whatever its path and verb
RECURSIVE RegisterRoutesUnchecked(_, _)
RegisterRoutesUnchecked(properties, routes) ==
    IF properties = <<>> THEN [router |-> routes, error |-> None]
    ELSE LET property == Head(properties)
             routeOptions == routeOptionsMeta[property]
         IN IF routeOptions = None
            THEN RegisterRoutesUnchecked(Tail(properties), routes)
            ELSE RegisterRoutesUnchecked(Tail(properties),
                    Append(routes,
                        [property |-> property,
                         method |-> IF ValueOf(routeOptions).method = None THEN ""
                                    ELSE ValueOf(ValueOf(routeOptions).method),
                         path |-> IF ValueOf(routeOptions).path = None THEN ""
                                  ELSE ValueOf(ValueOf(routeOptions).path),
                         chain |-> RouteChain(ValueOf(routeOptions),
                            [slot \in Slots |->
                                IF slot \in MarshalledSlots
                                THEN paramMeta[property][slot] ELSE None])]))

\* lines 393-507: the loop over the properties; stops at the first throw
RECURSIVE RegisterRoutes(_, _)
RegisterRoutes(properties, routes) ==
    IF properties = <<>> THEN [router |-> routes, error |-> None]
    ELSE LET property == Head(properties)
             routeOptions == routeOptionsMeta[property]
         IN IF routeOptions = None THEN RegisterRoutes(Tail(properties), routes)
            ELSE IF Falsy(ValueOf(routeOptions).path)
            THEN [router |-> routes, error |-> Some("Route path is required")]
            ELSE IF Falsy(ValueOf(routeOptions).method)
            THEN [router |-> routes, error |-> Some("Route method is required")]
            ELSE RegisterRoutes(Tail(properties),
                    Append(routes,
                        RegisteredRoute(property, ValueOf(routeOptions),
                            RouteChain(ValueOf(routeOptions),
                                [slot \in Slots |->
                                    IF slot \in MarshalledSlots
                                    THEN paramMeta[property][slot] ELSE None]))))

BuildRouterFromController ==
    IF Falsy(pathMeta)
    THEN [router |-> <<>>, error |-> Some("Controller class must have a path property")]
    ELSE RegisterRoutes(AllProperties, <<>>)

\* buildApp for the one controller: build its router, then mount it
BuildApp ==
    /\ buildState = "none"
    /\ LET built == BuildRouterFromController
       IN /\ router' = built.router
          /\ buildState' = IF built.error = None THEN "built" ELSE ValueOf(built.error)
          /\ mounted' = (built.error = None)
    /\ UNCHANGED <<decorVars, guardVars, serveVars, otherVars>>

Threw == buildState \notin {"none", "built"}

(***************************************************************************)
(* Class definitions: the decorators of a class applied in the order in    *)
(* which the language applies them (parameters, then the method decorators *)
(* from the bottom up, then the class decorator)                           *)
(***************************************************************************)
MaxMiddlewares == 2

RECURSIVE WithParameters(_, _, _)
WithParameters(d, propertyKey, parameters) ==
    IF parameters = <<>> THEN d
    ELSE WithParameters(Parameter(d, propertyKey, Head(parameters)[1], Head(parameters)[2]),
                        propertyKey, Tail(parameters))

RECURSIVE WithMiddlewares(_, _, _)
WithMiddlewares(d, propertyKey, mws) ==
    IF mws = <<>> THEN d
    ELSE WithMiddlewares(
            Middleware(d, propertyKey, Head(mws).handler, Some(Head(mws).isPre),
                       Some(Head(mws).order)),
            propertyKey, Tail(mws))

\* the decorators of one method, bottom-up
WithMethod(d, propertyKey, c) ==
    LET d1 == WithParameters(d, propertyKey, c.parameters)
        d2 == WithMiddlewares(d1, propertyKey, c.middlewares)
        d3 == IF c.permissions = <<>> THEN d2
              ELSE HttpMethod(d2, propertyKey, AuthorizedOptions(c.permissions))
        d4 == IF c.authenticated = None THEN d3
              ELSE HttpMethod(d3, propertyKey, AuthenticatedOptions(ValueOf(c.authenticated)))
        d5 == IF c.validations = <<>> THEN d4
              ELSE HttpMethod(d4, propertyKey, ValidateOptions(c.validations))
    IN IF c.verb = None THEN d5
       ELSE HttpMethod(d5, propertyKey,
                       VerbOptions(ValueOf(c.verb)[1], ValueOf(c.verb)[2], None))

ClassDefinition(c1, c2, controllerPath) ==
    LET d == WithMethod(WithMethod(Undecorated, "m1", c1), "m2", c2)
    IN IF controllerPath = None THEN d
       ELSE Controller(d, ValueOf(controllerPath), None, None)

MethodDecorators(parameters, middlewares, permissions, authenticated, validations, verb) ==
    [parameters |-> parameters, middlewares |-> middlewares,
     permissions |-> permissions, authenticated |-> authenticated,
     validations |-> validations, verb |-> verb]

Undecorated2 == MethodDecorators(<<>>, <<>>, <<>>, None, <<>>, None)

SeqsUpTo(S, n) == UNION {[1..k -> S] : k \in 0..n}

BuildMiddlewares ==
    SeqsUpTo([handler : {"mwNext"}, isPre : BOOLEAN, order : Orders], MaxMiddlewares)

\* the class definitions the builder is run on
BuildClasses ==
    {ClassDefinition(
        MethodDecorators(p, mws, perms, auth, vals, verb), c2, cp) :
        p \in {<< <<"body", 0>>, <<"headers", 1>> >>},
        mws \in BuildMiddlewares,
        perms \in {<<>>, << <<"a">>, <<"b">> >>},
        auth \in {None, Some(TRUE), Some(FALSE)},
        vals \in {<<>>, <<SpecBody, SpecParamsBody>>},
        verb \in {None, Some(<<"get", "/a">>), Some(<<"post", "">>)},
        c2 \in {Undecorated2,
                MethodDecorators(<<>>, <<>>, <<>>, Some(TRUE), <<>>, None),
                MethodDecorators(<<>>, <<>>, <<>>, None, <<>>, Some(<<"get", "/b">>))},
        cp \in {None, Some("/c"), Some("")}}

IsClass(d) ==
    /\ routeOptionsMeta = d.routeOptionsMeta
    /\ paramMeta = d.paramMeta
    /\ pathMeta = d.pathMeta
    /\ routeDefinitions = d.routeDefinitions
    /\ nextId = d.nextId
    /\ applied = d.applied

BuildInit ==
    /\ \E d \in BuildClasses : IsClass(d)
    /\ NotBuilt
    /\ guard = None
    /\ req = None /\ res = None /\ pc = None /\ call = None
    /\ OtherIdle

BuildNext == BuildApp

SpecBuild == BuildInit /\ [][BuildNext]_vars

(***************************************************************************)
(* The registry across several controller classes                          *)
(***************************************************************************)
\* class B extends A; A and C extend Controller, which holds no definitions
Classes == {"A", "B", "C"}
HasParent(c) == c = "B"
Parent(c) == "A"

\* what getRouteDefinitions is called with: a class, its prototype (the
\* target of a method decorator) or an instance
Targets == [kind : {"class", "prototype", "instance"}, cls : Classes]

\* RouteRegistry.getCtor
GetCtor(target) == target.cls

\* reading ctor.__routeDefinitions looks the property up along the chain of
\* constructors: a class without an own property reads its parent's
RECURSIVE Lookup(_, _)
Lookup(own, c) ==
    IF own[c] /= None THEN own[c]
    ELSE IF HasParent(c) THEN Lookup(own, Parent(c))
    ELSE None

\* RouteRegistry.getRouteDefinitions(target): the object returned, and the
\* registry after the call
Touch(own, objects, target) ==
    LET ctor == GetCtor(target)
    IN IF Lookup(own, ctor) = None
       THEN [own |-> [own EXCEPT ![ctor] = Some(Len(objects) + 1)],
             heap |-> Append(objects, EmptyDefinitions),
             object |-> Len(objects) + 1]
       ELSE [own |-> own, heap |-> objects, object |-> ValueOf(Lookup(own, ctor))]

CanDefine(c) ==
    /\ defining = None
    /\ c \notin defined
    /\ HasParent(c) => Parent(c) \in defined

\* the definition of class c starts to be evaluated
BeginClass(c) ==
    /\ CanDefine(c)
    /\ defining' = Some(c)
    /\ UNCHANGED <<ownDefinitions, heap, defined>>

\* a method decorator of the class being defined: RouteRegistry.updateRoute
RegistryUpdateRoute(c, methodName, updates) ==
    /\ defining = Some(c)
    /\ LET t == Touch(ownDefinitions, heap, [kind |-> "prototype", cls |-> c])
       IN /\ ownDefinitions' = t.own
          /\ heap' = [t.heap EXCEPT ![t.object] = UpdateRoute(@, methodName, updates)]
    /\ UNCHANGED <<defining, defined>>

\* @controller(path), applied last: RouteRegistry.setBasePath
RegistrySetBasePath(c, basePath) ==
    /\ defining = Some(c)
    /\ LET t == Touch(ownDefinitions, heap, [kind |-> "class", cls |-> c])
       IN /\ ownDefinitions' = t.own
          /\ heap' = [t.heap EXCEPT ![t.object] = SetBasePath(@, basePath, None, None)]
    /\ defining' = None
    /\ defined' = defined \cup {c}

\* the definition of a class without @controller ends
EndClass(c) ==
    /\ defining = Some(c)
    /\ defining' = None
    /\ defined' = defined \cup {c}
    /\ UNCHANGED <<ownDefinitions, heap>>

\* getRouteDefinitions called on a defined class, its prototype or an instance
\* (the Controller constructor does so)
RegistryGet(target) ==
    /\ defining = None
    /\ target.cls \in defined
    /\ LET t == Touch(ownDefinitions, heap, target)
       IN /\ ownDefinitions' = t.own
          /\ heap' = t.heap
    /\ UNCHANGED <<defining, defined>>

RegistryFrame ==
    UNCHANGED <<appVars, flightVars, contextVars, decorVars, buildVars, guardVars,
                serveVars, customVars, containerVars>>

DefineClass == \E c \in Classes : BeginClass(c) /\ RegistryFrame
DecorateRoute ==
    \E c \in Classes, v \in Verbs :
        RegistryUpdateRoute(c, "m1", VerbOptions(v, "/a", None)) /\ RegistryFrame
DecorateClass ==
    \E c \in Classes, basePath \in {"/a", "/b"} :
        RegistrySetBasePath(c, basePath) /\ RegistryFrame
FinishClass == \E c \in Classes : EndClass(c) /\ RegistryFrame
GetDefinitions == \E target \in Targets : RegistryGet(target) /\ RegistryFrame

RegistryInit ==
    /\ IsClass(Undecorated)
    /\ NotBuilt
    /\ guard = None
    /\ req = None /\ res = None /\ pc = None /\ call = None
    /\ OtherIdle

RegistryNext ==
    \/ DefineClass
    \/ DecorateRoute
    \/ DecorateClass
    \/ FinishClass
    \/ GetDefinitions

SpecRegistry == RegistryInit /\ [][RegistryNext]_vars

(***************************************************************************)
(* App.init: the server is started, then the routes are built              *)
(***************************************************************************)
\* App.init, which has no suspension point between listen and buildApp:
\* this.server = this.app.listen(...) and, further down, buildApp(...)
AppInit ==
    /\ server = "none"
    /\ buildState = "none"
    /\ server' = "listening"
    /\ LET built == BuildRouterFromController
       IN /\ router' = built.router
          /\ buildState' = IF built.error = None THEN "built" ELSE ValueOf(built.error)
          /\ mounted' = (built.error = None)
    /\ UNCHANGED <<traffic, instances, builds, registryVars, flightVars, contextVars, decorVars,
                   guardVars, serveVars, customVars, containerVars>>

\* a client connects to the listening server
Accept ==
    /\ server = "listening"
    /\ ~traffic
    /\ traffic' = TRUE
    /\ UNCHANGED <<server, instances, builds, registryVars, flightVars, contextVars, decorVars,
                   buildVars, guardVars, serveVars, customVars, containerVars>>

AppStart ==
    /\ \E d \in BuildClasses : IsClass(d)
    /\ NotBuilt
    /\ guard = None
    /\ req = None /\ res = None /\ pc = None /\ call = None
    /\ OtherIdle

AppNext == AppInit \/ Accept

SpecApp == AppStart /\ [][AppNext]_vars

(***************************************************************************)
(* Strings read character by character                                     *)
(***************************************************************************)
\* String.prototype.trim
RECURSIVE TrimStart(_)
TrimStart(str) ==
    IF str /= <<>> /\ Head(str) = " " THEN TrimStart(Tail(str)) ELSE str

RECURSIVE TrimEnd(_)
TrimEnd(str) ==
    IF str /= <<>> /\ str[Len(str)] = " "
    THEN TrimEnd(SubSeq(str, 1, Len(str) - 1)) ELSE str

Trim(str) == TrimEnd(TrimStart(str))

\* String.prototype.split(','): the pieces between the commas, empty ones included
RECURSIVE SplitFrom(_, _)
SplitFrom(str, piece) ==
    IF str = <<>> THEN <<piece>>
    ELSE IF Head(str) = "," THEN <<piece>> \o SplitFrom(Tail(str), <<>>)
    ELSE SplitFrom(Tail(str), Append(piece, Head(str)))

SplitOnComma(str) == SplitFrom(str, <<>>)

LowerCaseOf(c) ==
    CASE c = "T" -> "t" [] c = "R" -> "r" [] c = "U" -> "u" [] c = "E" -> "e"
      [] c = "Y" -> "y" [] c = "S" -> "s" [] c = "N" -> "n" [] c = "O" -> "o"
      [] OTHER -> c

\* String.prototype.toLowerCase
ToLowerCase(str) == [i \in 1..Len(str) |-> LowerCaseOf(str[i])]

NonEmpty(str) == str /= <<>>

\* header.split(',').map((s) => s.trim()).filter(Boolean)
PermissionsOfHeader(header) ==
    LET pieces == SplitOnComma(header)
    IN SelectSeq([i \in 1..Len(pieces) |-> Trim(pieces[i])], NonEmpty)

(***************************************************************************)
(* Exceptions                                                              *)
(***************************************************************************)
HttpException(code, message) ==
    [name |-> "HttpException", code |-> code, messageJson |-> message]
UnauthorizedException == HttpException(401, "Unauthorized")
ForbiddenException == HttpException(403, "Forbidden")
\* any error that is no HttpException
PlainError(message) == [name |-> "Error", code |-> 0, messageJson |-> message]

(***************************************************************************)
(* The guards.  A guard returns whether it called next, what it threw and  *)
(* the request as it leaves it.                                            *)
(***************************************************************************)
Called(request) == [next |-> TRUE, thrown |-> None, req |-> request]
Thrown(error, request) == [next |-> FALSE, thrown |-> Some(error), req |-> request]

\* String(req.headers[name] ?? '')
HeaderString(request, name) ==
    IF request.headers[name] = None THEN <<>> ELSE ValueOf(request.headers[name])

\* authorization guard that wants every required permission
AuthorizedMiddlewareEvery(required, request) ==
    LET fromReq == IF request.user = None THEN <<>> ELSE ValueOf(request.user).permissions
        fromHeader == PermissionsOfHeader(HeaderString(request, "x-user-permissions"))
        current == Range(fromReq) \cup Range(fromHeader)
        ok == required = <<>> \/ \A i \in 1..Len(required) : required[i] \in current
    IN IF ~ok THEN Thrown(ForbiddenException, request) ELSE Called(request)

\* authorizedMiddleware(required)(req, res, next)
AuthorizedMiddleware(required, request) ==
    LET fromReq == IF request.user = None THEN <<>> ELSE ValueOf(request.user).permissions
        fromHeader == PermissionsOfHeader(HeaderString(request, "x-user-permissions"))
        current == Range(fromReq) \cup Range(fromHeader)
        ok == required = <<>> \/ \E i \in 1..Len(required) : required[i] \in current
    IN IF ~ok THEN Thrown(ForbiddenException, request) ELSE Called(request)

AuthenticatingValues ==
    {<<"t", "r", "u", "e">>, <<"1">>, <<"y", "e", "s">>, <<"y">>}

\* authentication guard satisfied by any non-empty x-authenticated header
AuthenticatedMiddlewareAnyValue(request) ==
    LET isAuthHeader == ToLowerCase(Trim(HeaderString(request, "x-authenticated")))
        isAuthenticated == isAuthHeader /= <<>>
        userId == IF HeaderString(request, "x-user-id") = <<>> THEN None
                  ELSE request.headers["x-user-id"]
        permissions == PermissionsOfHeader(HeaderString(request, "x-user-permissions"))
    IN IF ~isAuthenticated THEN Thrown(UnauthorizedException, request)
       ELSE Called([request EXCEPT !.authenticated = Some(TRUE),
                                   !.user = Some([id |-> userId,
                                                  permissions |-> permissions])])

\* authenticatedMiddleware(req, res, next)
AuthenticatedMiddleware(request) ==
    LET isAuthHeader == ToLowerCase(Trim(HeaderString(request, "x-authenticated")))
        isAuthenticated == isAuthHeader \in AuthenticatingValues
        userId == IF HeaderString(request, "x-user-id") = <<>> THEN None
                  ELSE request.headers["x-user-id"]
        permissions == PermissionsOfHeader(HeaderString(request, "x-user-permissions"))
    IN IF ~isAuthenticated THEN Thrown(UnauthorizedException, request)
       ELSE Called([request EXCEPT !.authenticated = Some(TRUE),
                                   !.user = Some([id |-> userId,
                                                  permissions |-> permissions])])

(***************************************************************************)
(* The authorization guard called on its own                               *)
(***************************************************************************)
MaxHeaderLength == 3

HeaderCharacters == {"a", "b", ",", " "}
HeaderNames == {"x-authenticated", "x-user-id", "x-user-permissions"}

GuardRequest(user, permissionsHeader) ==
    [headers |-> [h \in HeaderNames |->
                    IF h = "x-user-permissions" THEN permissionsHeader ELSE None],
     authenticated |-> None,
     user |-> user]

GuardRequired == {<<>>, << <<"a">> >>, << <<"b">> >>, << <<"a">>, <<"b">> >>,
                  << <<"a", "b">> >>}
\* req.user: absent, or with a permission list
GuardUsers ==
    {None} \cup {Some([id |-> None, permissions |-> ps]) :
                    ps \in {<<>>, << <<"a">> >>, << <<"b">>, <<"a", "b">> >>}}

GuardInit ==
    /\ \E required \in GuardRequired, user \in GuardUsers,
          header \in {None} \cup {Some(h) : h \in SeqsUpTo(HeaderCharacters, MaxHeaderLength)} :
            guard = Some([required |-> required,
                          request |-> GuardRequest(user, header),
                          outcome |-> None])
    /\ IsClass(Undecorated)
    /\ NotBuilt
    /\ req = None /\ res = None /\ pc = None /\ call = None
    /\ OtherIdle

CallAuthorizedMiddleware ==
    /\ guard /= None
    /\ ValueOf(guard).outcome = None
    /\ guard' = Some([ValueOf(guard) EXCEPT
                        !.outcome = Some(AuthorizedMiddleware(ValueOf(guard).required,
                                                              ValueOf(guard).request))])
    /\ UNCHANGED <<decorVars, buildVars, serveVars, otherVars>>

GuardNext == CallAuthorizedMiddleware

SpecGuard == GuardInit /\ [][GuardNext]_vars

\* the permission names between the commas of a header value, spaces around
\* them dropped, read off the positions of the commas
HeaderPermissionSet(header) ==
    LET ends == {0, Len(header) + 1} \cup {i \in 1..Len(header) : header[i] = ","}
        inner(p, q) == {i \in (p + 1)..(q - 1) : header[i] /= " "}
    IN {SubSeq(header,
               CHOOSE i \in inner(p, q) : \A j \in inner(p, q) : i <= j,
               CHOOSE i \in inner(p, q) : \A j \in inner(p, q) : j <= i) :
          <<p, q>> \in {<<p, q>> \in ends \X ends :
                          /\ p < q
                          /\ \A e \in ends : ~(p < e /\ e < q)
                          /\ inner(p, q) /= {}}}

\* the request's current permission set: req.user.permissions and the header's
CurrentPermissions(request) ==
    (IF request.user = None THEN {} ELSE Range(ValueOf(request.user).permissions))
    \cup HeaderPermissionSet(HeaderString(request, "x-user-permissions"))

Value(kind, slot, cls) == [kind |-> kind, slot |-> slot, cls |-> cls, content |-> None]
Raw(slot) == Value("raw", slot, NoClass)
Instance(slot, cls) == Value("instance", slot, cls)
\* plainToInstance(ValidationClass, source)
InstanceOf(cls, source) == [source EXCEPT !.kind = "instance", !.cls = cls]
Undefined == Value("undefined", "", NoClass)
Handle(kind) == Value(kind, "", NoClass)

\* how the request's value of a slot fares under plainToInstance and validate:
\* "bad" breaks a Strict class, "boom" makes the transformation throw
Qualities == {"good", "bad", "boom"}

Request(xAuthenticated, xUserPermissions, bodyQuality, headersQuality) ==
    [headers |-> [h \in HeaderNames |->
                    IF h = "x-authenticated" THEN xAuthenticated
                    ELSE IF h = "x-user-permissions" THEN xUserPermissions
                    ELSE None],
     authenticated |-> None,
     user |-> None,
     data |-> [slot \in DataSlots \ {"headers"} |-> Raw(slot)],
     validatedHeaders |-> None,
     content |-> None,
     quality |-> [slot \in DataSlots |->
                    IF slot = "body" THEN bodyQuality
                    ELSE IF slot = "headers" THEN headersQuality
                    ELSE "good"]]

MarkerYes == Some(<<" ", "Y", "E", "S">>)
MarkerNo == Some(<<"n", "o">>)

\* the requests sent to the route
ServeRequests ==
    {Request(a, p, "good", "good") :
        a \in {None, MarkerYes, MarkerNo}, p \in {None, Some(<<"b">>)}}
    \cup {Request(a, Some(<<"b">>), q[1], q[2]) :
            a \in {None, MarkerYes},
            q \in {<<"bad", "good">>, <<"boom", "good">>, <<"good", "bad">>}}

Body(kind, ok, errors) == [kind |-> kind, ok |-> ok, errors |-> errors]
NoBody == Body("", TRUE, <<>>)

\* a response nothing has been written to
FreshResponse ==
    [headersSent |-> FALSE, statusCode |-> 0, body |-> NoBody, writes |-> 0,
     destroyed |-> FALSE]

\* res.status(status).json(body) / .send(body): on a response already sent the
\* runtime refuses the write with ERR_HTTP_HEADERS_SENT
Json(response, status, body) ==
    IF response.headersSent
    THEN [res |-> [response EXCEPT !.writes = @ + 1], threw |-> TRUE]
    ELSE [res |-> [response EXCEPT !.headersSent = TRUE, !.statusCode = status,
                                   !.body = body, !.writes = @ + 1],
          threw |-> FALSE]

HeadersSentError == PlainError("ERR_HTTP_HEADERS_SENT")

(***************************************************************************)
(* The validation step                                                     *)
(***************************************************************************)
\* class-validator's validate: the list of errors
Validate(cls, quality) ==
    IF cls = "Strict" /\ quality = "bad"
    THEN <<[property |-> "p", constraints |-> "c"]>>
    ELSE <<>>

StepResult(request, response, next, thrown) ==
    [req |-> request, res |-> response, next |-> next, thrown |-> thrown]

\* the catch block of the validation step
ValidationFailed(request, response) ==
    LET w == Json(response, 400, Body("validationFailed", FALSE, <<>>))
    IN StepResult(request, w.res, FALSE,
                  IF w.threw THEN Some(HeadersSentError) ELSE None)

\* a validation step that answers 400 and goes on to the next handler
ValidationMiddlewareThenNext(cls, type, request, response) ==
    IF request.quality[type] = "boom" THEN ValidationFailed(request, response)
    ELSE LET errors == Validate(cls, request.quality[type])
         IN IF Len(errors) > 0
            THEN LET w == Json(response, 400, Body("validationError", FALSE, errors))
                 IN IF w.threw THEN ValidationFailed(request, w.res)
                    ELSE StepResult(request, w.res, TRUE, None)
            ELSE StepResult(
                    IF type = "headers"
                    THEN [request EXCEPT !.validatedHeaders = Some(Instance(type, cls))]
                    ELSE [request EXCEPT !.data[type] = Instance(type, cls)],
                    response, TRUE, None)

\* lines 359-366: the source the step validates
Source(type, request) ==
    IF type = "headers" THEN [Raw("headers") EXCEPT !.content = request.content]
    ELSE request.data[type]

\* lines 359-378: up to the await; None when the transformation throws
Transform(cls, type, request) ==
    IF request.quality[type] = "boom" THEN None
    ELSE Some(InstanceOf(cls, Source(type, request)))

\* lines 386-434: from the await on, with the instance made before it
AfterValidate(cls, type, instance, request, response) ==
    IF instance = None THEN ValidationFailed(request, response)
    ELSE LET errors == Validate(cls, request.quality[type])
         IN IF Len(errors) > 0
            THEN LET w == Json(response, 400, Body("validationError", FALSE, errors))
                 IN IF w.threw THEN ValidationFailed(request, w.res)
                    ELSE StepResult(request, w.res, FALSE, None)
            ELSE StepResult(
                    IF type = "headers"
                    THEN [request EXCEPT !.validatedHeaders = instance]
                    ELSE [request EXCEPT !.data[type] = ValueOf(instance)],
                    response, TRUE, None)

\* validationMiddleware(ValidationClass, type)(req, res, next)
ValidationMiddleware(cls, type, request, response) ==
    AfterValidate(cls, type, Transform(cls, type, request), request, response)

(***************************************************************************)
(* The handler wrapper                                                     *)
(***************************************************************************)
\* the order in which the wrapper fills its argument map
MarshalOrder == <<"req", "res", "next", "body", "query", "params">>

\* req, res, next themselves; (req as any).validatedBody ?? req.body and alike:
\* no step sets validatedBody, validatedQuery or validatedParams
ArgumentFor(slot, request) ==
    IF slot \in {"req", "res", "next"} THEN Handle(slot) ELSE request.data[slot]

Maximum(S) == CHOOSE m \in S : \A x \in S : x <= m

\* lines 472-489: the arguments the controller method is called with
RealArgs(argIndex, request) ==
    LET setters(i) == {k \in 1..Len(MarshalOrder) : argIndex[MarshalOrder[k]] = Some(i)}
        keys == {ValueOf(argIndex[slot]) :
                    slot \in {t \in Range(MarshalOrder) : argIndex[t] /= None}}
    IN IF keys = {} THEN <<Handle("req"), Handle("res"), Handle("next")>>
       ELSE [j \in 1..(Maximum(keys) + 1) |->
                IF setters(j - 1) = {} THEN Undefined
                ELSE ArgumentFor(MarshalOrder[Maximum(setters(j - 1))], request)]

\* what a controller method does when called: whether it writes the response
\* itself, whether it calls next, and how it ends
Behaviour(writes, callsNext, outcome) ==
    [writes |-> writes, callsNext |-> callsNext, outcome |-> outcome]

Outcomes == {"value", "builder", "throw"}

\* a method can write only through req or res, and call next only through req
\* or next, when they are among its arguments
HandlerBehaviours(args) ==
    {Behaviour(FALSE, FALSE, o) : o \in Outcomes}
    \cup {Behaviour(TRUE, FALSE, o) :
            o \in {x \in Outcomes : Range(args) \cap {Handle("req"), Handle("res")} /= {}}}
    \cup {Behaviour(FALSE, TRUE, o) :
            o \in {x \in {"value"} : Range(args) \cap {Handle("req"), Handle("next")} /= {}}}

\* ResponseBuilder.build(res)
Build(response) == Json(response, 201, Body("builder", TRUE, <<>>))

\* a wrapper that sends builders only, and drops a plain return value
HandleResultBuilderOnly(outcome, request, response) ==
    IF outcome = "throw"
    THEN StepResult(request, response, FALSE, Some(PlainError("handler")))
    ELSE IF outcome = "builder"
    THEN LET w == Build(response)
         IN StepResult(request, w.res, FALSE,
                       IF w.threw THEN Some(HeadersSentError) ELSE None)
    ELSE StepResult(request, response, FALSE, None)

\* a wrapper that sends a plain return value without looking at headersSent
HandleResultUnconditional(outcome, request, response) ==
    IF outcome = "throw"
    THEN StepResult(request, response, FALSE, Some(PlainError("handler")))
    ELSE IF outcome = "builder"
    THEN LET w == Build(response)
         IN StepResult(request, w.res, FALSE,
                       IF w.threw THEN Some(HeadersSentError) ELSE None)
    ELSE LET w == Json(response, 200, Body("result", TRUE, <<>>))
         IN StepResult(request, w.res, FALSE,
                       IF w.threw THEN Some(HeadersSentError) ELSE None)

\* a wrapper that answers with the error of the controller method itself
HandleResultErrorInline(outcome, request, response) ==
    IF outcome = "throw"
    THEN StepResult(request, Json(response, 500, Body("result", FALSE, <<>>)).res,
                    FALSE, None)
    ELSE IF outcome = "builder"
    THEN LET w == Build(response)
         IN StepResult(request, w.res, FALSE,
                       IF w.threw THEN Some(HeadersSentError) ELSE None)
    ELSE IF ~response.headersSent
    THEN StepResult(request, Json(response, 200, Body("result", TRUE, <<>>)).res,
                    FALSE, None)
    ELSE StepResult(request, response, FALSE, None)

\* lines 491-499: what the wrapper does once the controller method has ended
HandleResult(outcome, request, response) ==
    IF outcome = "throw"
    THEN StepResult(request, response, FALSE, Some(PlainError("handler")))
    ELSE IF outcome = "builder"
    THEN LET w == Build(response)
         IN StepResult(request, w.res, FALSE,
                       IF w.threw THEN Some(HeadersSentError) ELSE None)
    ELSE IF ~response.headersSent
    THEN StepResult(request, Json(response, 200, Body("result", TRUE, <<>>)).res,
                    FALSE, None)
    ELSE StepResult(request, response, FALSE, None)

(***************************************************************************)
(* The boundary error handler and the framework's final handler            *)
(***************************************************************************)
\* App.afterInit: the error handler installed after the routes
StandardErrorHandler(error, response) ==
    IF error.name = "HttpException"
    THEN Json(response, error.code, Body(error.messageJson, TRUE, <<>>))
    ELSE Json(response, 500, Body("Some error happen", TRUE, <<>>))

(***************************************************************************)
(* Serving one request on the route of method m1                           *)
(***************************************************************************)
Control(phase, stage, error, outcome, pending404, ran) ==
    [phase |-> phase, stage |-> stage, error |-> error, outcome |-> outcome,
     pending404 |-> pending404, ran |-> ran]

Chain == router[1].chain
CurrentStage == Chain[ValueOf(pc).stage]
AtStage(kind) ==
    /\ pc /= None
    /\ ValueOf(pc).phase = "chain"
    /\ CurrentStage.kind = kind

\* a stage has run: go on with the next one, pass the error on, or stop
AfterStage(result) ==
    LET c == ValueOf(pc)
        ran == Append(c.ran, [stage |-> c.stage, next |-> result.next])
    IN /\ req' = Some(result.req)
       /\ res' = Some(result.res)
       /\ pc' = Some(IF result.thrown /= None
                     THEN [c EXCEPT !.phase = "error", !.error = result.thrown,
                                    !.ran = ran]
                     ELSE IF result.next
                     THEN [c EXCEPT !.stage = @ + 1, !.ran = ran]
                     ELSE [c EXCEPT !.phase = "done", !.ran = ran])

Receive ==
    /\ buildState = "built"
    /\ req = None
    /\ \E request \in ServeRequests : req' = Some(request)
    /\ res' = Some(FreshResponse)
    /\ pc' = Some(Control("chain", 1, None, "", FALSE, <<>>))
    /\ UNCHANGED <<call, decorVars, buildVars, guardVars, otherVars>>

\* a user middleware: calls next, answers itself, or fails
StepMiddleware ==
    /\ AtStage("middleware")
    /\ LET request == ValueOf(req)
           response == ValueOf(res)
       IN AfterStage(
            CASE CurrentStage.handler = "mwNext" ->
                    StepResult(request, response, TRUE, None)
              [] CurrentStage.handler = "mwRespond" ->
                    StepResult(request, Json(response, 200, Body("own", TRUE, <<>>)).res,
                               FALSE, None)
              [] OTHER ->
                    StepResult(request, response, FALSE, Some(PlainError("middleware"))))
    /\ UNCHANGED <<call, decorVars, buildVars, guardVars, otherVars>>

StepValidation ==
    /\ AtStage("validation")
    /\ AfterStage(ValidationMiddleware(CurrentStage.cls, CurrentStage.slot,
                                       ValueOf(req), ValueOf(res)))
    /\ UNCHANGED <<call, decorVars, buildVars, guardVars, otherVars>>

GuardResult(outcome, response) ==
    StepResult(outcome.req, response, outcome.next, outcome.thrown)

StepAuthenticated ==
    /\ AtStage("authenticated")
    /\ AfterStage(GuardResult(AuthenticatedMiddleware(ValueOf(req)), ValueOf(res)))
    /\ UNCHANGED <<call, decorVars, buildVars, guardVars, otherVars>>

StepAuthorized ==
    /\ AtStage("authorized")
    /\ AfterStage(GuardResult(AuthorizedMiddleware(CurrentStage.required, ValueOf(req)),
                              ValueOf(res)))
    /\ UNCHANGED <<call, decorVars, buildVars, guardVars, otherVars>>

\* the wrapper builds the arguments and calls the controller method, which may
\* write the response or call next before it ends
InvokeHandler ==
    /\ AtStage("handler")
    /\ LET args == RealArgs(CurrentStage.argIndex, ValueOf(req))
           c == ValueOf(pc)
       IN \E b \in HandlerBehaviours(args) :
            /\ call' = Some([args |-> args, behaviour |-> b])
            /\ res' = IF b.writes
                      THEN Some(Json(ValueOf(res), 200, Body("own", TRUE, <<>>)).res)
                      ELSE res
            /\ pc' = Some([c EXCEPT !.phase = "returning", !.outcome = b.outcome,
                                    !.pending404 = b.callsNext])
    /\ UNCHANGED <<req, decorVars, buildVars, guardVars, otherVars>>

\* the awaited call has ended
CompleteHandler ==
    /\ pc /= None
    /\ ValueOf(pc).phase = "returning"
    /\ AfterStage(HandleResult(ValueOf(pc).outcome, ValueOf(req), ValueOf(res)))
    /\ UNCHANGED <<call, decorVars, buildVars, guardVars, otherVars>>

\* next(error) has reached the boundary error handler; a throw out of it goes
\* to the framework's final handler
ErrorHandler ==
    /\ pc /= None
    /\ ValueOf(pc).phase = "error"
    /\ LET w == StandardErrorHandler(ValueOf(ValueOf(pc).error), ValueOf(res))
       IN /\ res' = Some(w.res)
          /\ pc' = Some([ValueOf(pc) EXCEPT
                            !.phase = IF w.threw THEN "final" ELSE "done",
                            !.error = IF w.threw THEN Some(HeadersSentError) ELSE None])
    /\ UNCHANGED <<req, call, decorVars, buildVars, guardVars, otherVars>>

\* the framework's final handler with an error: answers 500, or destroys the
\* socket when a response was sent already
FinalHandler ==
    /\ pc /= None
    /\ ValueOf(pc).phase = "final"
    /\ res' = Some(IF ValueOf(res).headersSent
                   THEN [ValueOf(res) EXCEPT !.destroyed = TRUE]
                   ELSE Json(ValueOf(res), 500, Body("final", TRUE, <<>>)).res)
    /\ pc' = Some([ValueOf(pc) EXCEPT !.phase = "done"])
    /\ UNCHANGED <<req, call, decorVars, buildVars, guardVars, otherVars>>

\* the controller method called next and no later route matches: the final
\* handler writes 404, at once or when the request has been read to its end
NotFound ==
    /\ pc /= None
    /\ ValueOf(pc).pending404
    /\ res' = Some(Json(ValueOf(res), 404, Body("Cannot GET", TRUE, <<>>)).res)
    /\ pc' = Some([ValueOf(pc) EXCEPT !.pending404 = FALSE])
    /\ UNCHANGED <<req, call, decorVars, buildVars, guardVars, otherVars>>

ServeMiddlewares ==
    {<<>>} \cup {<<[handler |-> h, isPre |-> TRUE, order |-> 0]>> : h \in HandlerNames}
           \cup {<<[handler |-> "mwNext", isPre |-> FALSE, order |-> 0]>>}

\* the controllers the requests are served by: one route, GET /c/a
ServeClasses ==
    {ClassDefinition(
        MethodDecorators(p, mws, perms, auth, vals, Some(<<"get", "/a">>)),
        Undecorated2, Some("/c")) :
        p \in {<<>>, << <<"headers", 0>> >>, << <<"body", 0>>, <<"headers", 1>> >>},
        mws \in ServeMiddlewares,
        perms \in {<<>>, << <<"a">>, <<"b">> >>},
        auth \in {None, Some(TRUE)},
        vals \in {<<>>, <<SpecBody>>, <<SpecHeaders, SpecBody>>}}

ServeInit ==
    /\ \E d \in ServeClasses : IsClass(d)
    /\ NotBuilt
    /\ guard = None
    /\ req = None /\ res = None /\ pc = None /\ call = None
    /\ OtherIdle

ServeNext ==
    \/ BuildApp
    \/ Receive
    \/ StepMiddleware
    \/ StepValidation
    \/ StepAuthenticated
    \/ StepAuthorized
    \/ InvokeHandler
    \/ CompleteHandler
    \/ ErrorHandler
    \/ FinalHandler
    \/ NotFound

SpecServe == ServeInit /\ [][ServeNext]_vars

\* every stage that can run does run
SpecServeFair ==
    /\ SpecServe
    /\ WF_vars(StepMiddleware)
    /\ WF_vars(StepValidation)
    /\ WF_vars(StepAuthenticated)
    /\ WF_vars(StepAuthorized)
    /\ WF_vars(InvokeHandler)
    /\ WF_vars(CompleteHandler)
    /\ WF_vars(ErrorHandler)
    /\ WF_vars(FinalHandler)
    /\ WF_vars(NotFound)

(***************************************************************************)
(* Requests in flight together: every await of a chain is a point where    *)
(* another request's steps can run                                         *)
(***************************************************************************)
MaxRequests == 2
RequestIds == 1..MaxRequests

\* the state of one request in flight; local is the instance the validation
\* step holds across its await
Flight(request, response, phase, stage, local, invocation) ==
    [req |-> request, res |-> response, phase |-> phase, stage |-> stage,
     local |-> local, call |-> invocation]

\* the request with id r: its slots hold data of its own
FlightRequest(r, bodyQuality) ==
    [Request(None, None, bodyQuality, "good") EXCEPT
        !.content = Some(r),
        !.data = [slot \in DataSlots \ {"headers"} |->
                    [Raw(slot) EXCEPT !.content = Some(r)]]]

IsFlying(r) == r \in DOMAIN inflight

FlightAt(r, phase, kind) ==
    /\ IsFlying(r)
    /\ inflight[r].phase = phase
    /\ Chain[inflight[r].stage].kind = kind

\* a validation step that writes the instance to the request that came first
RequestWrittenFirst(r) == 1

\* the req a step's closure was called with: the step's own request
RequestWritten(r) == r

FlightFrame ==
    UNCHANGED <<appVars, registryVars, contextVars, decorVars, buildVars, guardVars,
                serveVars, customVars, containerVars>>

\* requests arrive in the order of their ids
FlightReceive(r) ==
    /\ buildState = "built"
    /\ r = Len(inflight) + 1
    /\ \E q \in {"good", "bad"} :
          inflight' = Append(inflight,
                        Flight(FlightRequest(r, q), FreshResponse, "chain", 1, None, None))
    /\ FlightFrame

\* the validation step up to its await
FlightTransform(r) ==
    /\ FlightAt(r, "chain", "validation")
    /\ inflight' = [inflight EXCEPT
          ![r].phase = "validating",
          ![r].local = Transform(Chain[inflight[r].stage].cls,
                                 Chain[inflight[r].stage].slot, inflight[r].req)]
    /\ FlightFrame

\* the validation step from its await on
FlightValidated(r) ==
    /\ FlightAt(r, "validating", "validation")
    /\ LET f == inflight[r]
           w == RequestWritten(r)
           result == AfterValidate(Chain[f.stage].cls, Chain[f.stage].slot, f.local,
                                   inflight[w].req, f.res)
           moved == [inflight EXCEPT
                        ![r].res = result.res,
                        ![r].local = None,
                        ![r].phase = IF result.next THEN "chain" ELSE "done",
                        ![r].stage = IF result.next THEN @ + 1 ELSE @]
       IN inflight' = [moved EXCEPT ![w].req = result.req]
    /\ FlightFrame

\* the wrapper calls the controller method, which awaits
FlightInvoke(r) ==
    /\ FlightAt(r, "chain", "handler")
    /\ inflight' = [inflight EXCEPT
          ![r].phase = "returning",
          ![r].call = Some([args |-> RealArgs(Chain[inflight[r].stage].argIndex,
                                              inflight[r].req),
                            behaviour |-> Behaviour(FALSE, FALSE, "value")])]
    /\ FlightFrame

\* the controller method has returned its value
FlightComplete(r) ==
    /\ IsFlying(r)
    /\ inflight[r].phase = "returning"
    /\ inflight' = [inflight EXCEPT
          ![r].phase = "done",
          ![r].res = HandleResult("value", inflight[r].req, inflight[r].res).res]
    /\ FlightFrame

\* routes with validated slots handed to the method
FlightClasses ==
    {ClassDefinition(
        MethodDecorators(p, <<>>, <<>>, None, vals, Some(<<"post", "/a">>)),
        Undecorated2, Some("/c")) :
        p \in {<< <<"body", 0>> >>, << <<"params", 0>>, <<"body", 1>> >>},
        vals \in {<<SpecBody>>, <<SpecParamsBody, SpecBody>>}}

FlightInit ==
    /\ \E d \in FlightClasses : IsClass(d)
    /\ NotBuilt
    /\ guard = None
    /\ req = None /\ res = None /\ pc = None /\ call = None
    /\ OtherIdle

FlightBuild == BuildApp /\ inflight = <<>>
Arrive == \E r \in RequestIds : FlightReceive(r)
TransformStep == \E r \in RequestIds : FlightTransform(r)
ValidatedStep == \E r \in RequestIds : FlightValidated(r)
InvokeStep == \E r \in RequestIds : FlightInvoke(r)
CompleteStep == \E r \in RequestIds : FlightComplete(r)

FlightNext ==
    \/ FlightBuild
    \/ Arrive
    \/ TransformStep
    \/ ValidatedStep
    \/ InvokeStep
    \/ CompleteStep

SpecFlight == FlightInit /\ [][FlightNext]_vars

(***************************************************************************)
(* Instances of a controller class, and builds repeated on them            *)
(***************************************************************************)
MaxInstances == 2
MaxBuilds == 2

\* new SomeController(): the Controller constructor reads the class metadata
\* and keeps RouteRegistry.getRouteDefinitions(ctor)
NewController ==
    /\ instances < MaxInstances
    /\ instances' = instances + 1
    /\ routeDefinitions' = Some(GetRouteDefinitions(routeDefinitions))
    /\ UNCHANGED <<routeOptionsMeta, paramMeta, pathMeta, nextId, applied>>
    /\ UNCHANGED <<server, traffic, builds, registryVars, flightVars, contextVars, buildVars,
                   guardVars, serveVars, customVars, containerVars>>

\* buildApp(app, [instance]) called once more
BuildAgain ==
    /\ instances > 0
    /\ builds < MaxBuilds
    /\ builds' = builds + 1
    /\ LET built == BuildRouterFromController
       IN /\ router' = built.router
          /\ buildState' = IF built.error = None THEN "built" ELSE ValueOf(built.error)
          /\ mounted' = (mounted \/ built.error = None)
    /\ UNCHANGED <<server, traffic, instances, registryVars, flightVars, contextVars, decorVars,
                   guardVars, serveVars, customVars, containerVars>>

\* the classes instantiated: the served ones, one never decorated, and one
\* whose decorated method lacks a verb
RebuildClasses ==
    ServeClasses
    \cup {ClassDefinition(Undecorated2, Undecorated2, None),
          ClassDefinition(
            MethodDecorators(<<>>, <<>>, << <<"a">> >>, Some(TRUE), <<SpecBody>>, None),
            Undecorated2, Some("/c"))}

RebuildInit ==
    /\ \E d \in RebuildClasses : IsClass(d)
    /\ NotBuilt
    /\ guard = None
    /\ req = None /\ res = None /\ pc = None /\ call = None
    /\ OtherIdle

RebuildNext == NewController \/ BuildAgain

SpecRebuild == RebuildInit /\ [][RebuildNext]_vars

(***************************************************************************)
(* The request context: an AsyncLocalStorage store per asynchronous        *)
(* execution, the context middleware, and the context accessors            *)
(***************************************************************************)
MaxTasks == 3
MaxContexts == 2
MaxCalls == 2
MaxDepth == 2

Keys == {"traceId", "user"}
\* the value of the n-th setContextValue call: every call sets a value of its own
ContextValues == <<"v1", "v2", "v3", "v4">>
TraceHeaders == {None, Some(""), Some("h1")}
GeneratedIds == <<"uuid1", "uuid2", "uuid3", "uuid4">>
NotInContextError == "Cannot set context value: not in a request context"

\* an object literal { traceId }
ContextOf(traceId) == [k \in Keys |-> IF k = "traceId" THEN Some(traceId) ELSE None]

\* one asynchronous execution: store is what asyncLocalStorage.getStore() returns
\* in it, saved the stores that the runs it is inside of restore at their exit,
\* frames the context objects of the runInContext calls it is executing in
\* (innermost last), started the number of frames it was started within
Task(store, frames, request) ==
    [store |-> store, saved |-> <<>>, frames |-> frames, started |-> Len(frames),
     request |-> request]

Front(q) == SubSeq(q, 1, Len(q) - 1)
Last(q) == q[Len(q)]

\* asyncLocalStorage.run(context, fn) at the entry of fn
EnterRun(task, c) ==
    [task EXCEPT !.saved = Append(@, task.store),
                 !.store = Some(c),
                 !.frames = Append(@, c)]

\* a run whose exit leaves the store as fn had it
StoreKeptAtExit(task) == task.store

\* the store asyncLocalStorage.run puts back when fn has returned
StoreAtExit(task) == Last(task.saved)

ExitRun(task) ==
    [task EXCEPT !.store = StoreAtExit(task),
                 !.saved = Front(@),
                 !.frames = Front(@)]

GetContext(t) ==
    IF tasks[t].store = None THEN None ELSE Some(contexts[ValueOf(tasks[t].store)])

GetTraceId(t) ==
    IF tasks[t].store = None THEN None
    ELSE contexts[ValueOf(tasks[t].store)]["traceId"]

GetContextValue(t, key) ==
    IF tasks[t].store = None THEN None
    ELSE contexts[ValueOf(tasks[t].store)][key]

\* an assignment that keeps a key already present
AssignAbsent(context, key, value) ==
    IF context[key] = None THEN [context EXCEPT ![key] = Some(value)] ELSE context

\* context[key] = value
Assign(context, key, value) == [context EXCEPT ![key] = Some(value)]

GenerateTraceId == GeneratedIds[generated + 1]

\* a middleware that takes any header value, the empty one too
TraceIdOfAnyHeader(header, fresh) == IF header = None THEN fresh ELSE ValueOf(header)

\* traceIdFromHeader || generateTraceId()
TraceIdOf(header, fresh) == IF Falsy(header) THEN fresh ELSE ValueOf(header)

\* the one context object of a middleware that keeps it in a module variable
SharedContextObject(objects) == 1

\* the identity of a new object literal
NewContextObject(objects) == Len(objects) + 1

ContextFrame ==
    UNCHANGED <<appVars, registryVars, flightVars, decorVars, buildVars, guardVars,
                serveVars, customVars, containerVars>>

\* contextMiddleware(req, res, next): next() and everything express runs from it
\* is the new execution
ContextMiddleware ==
    /\ Len(traces) < MaxRequests
    /\ Len(tasks) < MaxTasks
    /\ Len(contexts) < MaxContexts
    /\ \E header \in TraceHeaders :
          LET traceId == TraceIdOf(header, GenerateTraceId)
              c == NewContextObject(contexts)
              r == Len(traces) + 1
          IN /\ generated' = IF Falsy(header) THEN generated + 1 ELSE generated
             /\ contexts' = IF c > Len(contexts) THEN Append(contexts, ContextOf(traceId))
                            ELSE [contexts EXCEPT ![c] = ContextOf(traceId)]
             /\ latest' = IF c > Len(latest) THEN Append(latest, [k \in Keys |-> None])
                          ELSE latest
             /\ traces' = Append(traces, [header |-> header, traceId |-> traceId,
                                          xTraceId |-> traceId, context |-> c,
                                          fresh |-> Falsy(header)])
             /\ tasks' = Append(tasks, Task(Some(c), <<c>>, Some(r)))
    /\ UNCHANGED <<calls, lastCall>>
    /\ ContextFrame

\* code that is in no request and in no context: a test body, module start-up
StartOutside ==
    /\ Len(tasks) < MaxTasks
    /\ \A t \in DOMAIN tasks : tasks[t].request /= None
    /\ tasks' = Append(tasks, Task(None, <<>>, None))
    /\ UNCHANGED <<contexts, latest, generated, traces, calls, lastCall>>
    /\ ContextFrame

\* runInContext(context, fn) is called in execution t with a new object, and
\* fn begins
RunInNewContext(t) ==
    /\ Len(contexts) < MaxContexts
    /\ Len(tasks[t].frames) < MaxDepth
    /\ contexts' = Append(contexts, ContextOf("t1"))
    /\ latest' = Append(latest, [k \in Keys |-> None])
    /\ tasks' = [tasks EXCEPT ![t] = EnterRun(@, Len(contexts) + 1)]
    /\ UNCHANGED <<generated, traces, calls, lastCall>>
    /\ ContextFrame

\* fn returns, and with it runInContext
ReturnFromRun(t) ==
    /\ tasks[t].saved /= <<>>
    /\ tasks' = [tasks EXCEPT ![t] = ExitRun(@)]
    /\ UNCHANGED <<contexts, latest, generated, traces, calls, lastCall>>
    /\ ContextFrame

\* execution t awaits, sets a timer or chains a promise: the continuation is an
\* execution of its own that starts with the store of t
Continue(t) ==
    /\ Len(tasks) < MaxTasks
    /\ tasks' = Append(tasks, Task(tasks[t].store, tasks[t].frames, tasks[t].request))
    /\ UNCHANGED <<contexts, latest, generated, traces, calls, lastCall>>
    /\ ContextFrame

\* setContextValue(key, value) in execution t
SetContextValue(t, key, value) ==
    /\ calls < MaxCalls
    /\ calls' = calls + 1
    /\ IF tasks[t].store = None
       THEN /\ lastCall' = Some([task |-> t, key |-> key, value |-> value,
                                 threw |-> NotInContextError])
            /\ UNCHANGED <<contexts, latest>>
       ELSE LET c == ValueOf(tasks[t].store)
            IN /\ contexts' = [contexts EXCEPT ![c] = Assign(@, key, value)]
               /\ latest' = [latest EXCEPT ![c][key] = Some(value)]
               /\ lastCall' = Some([task |-> t, key |-> key, value |-> value,
                                    threw |-> ""])
    /\ UNCHANGED <<tasks, generated, traces>>
    /\ ContextFrame

ContextInit ==
    /\ IsClass(Undecorated)
    /\ NotBuilt
    /\ guard = None
    /\ req = None /\ res = None /\ pc = None /\ call = None
    /\ OtherIdle

RunNew == \E t \in DOMAIN tasks : RunInNewContext(t)
ReturnStep == \E t \in DOMAIN tasks : ReturnFromRun(t)
ContinueStep == \E t \in DOMAIN tasks : Continue(t)
SetStep ==
    \E t \in DOMAIN tasks : \E key \in Keys :
        SetContextValue(t, key, ContextValues[calls + 1])

\* requests through contextMiddleware, their continuations and their calls
ContextNext ==
    \/ ContextMiddleware
    \/ ContinueStep
    \/ SetStep

SpecContext == ContextInit /\ [][ContextNext]_vars

\* code outside any request that calls runInContext, nested too
RunNext ==
    \/ StartOutside
    \/ RunNew
    \/ ReturnStep
    \/ ContinueStep
    \/ SetStep

SpecRun == ContextInit /\ [][RunNext]_vars

(***************************************************************************)
(* What the decorator applications made so far have supplied               *)
(***************************************************************************)
AppliedTo(m) == {i \in 1..Len(applied) : applied[i].on = m}

SuppliedPermissions(m) ==
    UNION {Range(applied[i].options.permissions) : i \in AppliedTo(m)}

SuppliedMiddlewares(m) ==
    UNION {Range(applied[i].options.otherHttpMiddlewares) : i \in AppliedTo(m)}

ScalarFields == {"method", "path", "name", "authenticated"}

\* the value of a scalar field given by the latest application that gave one
LastSupplied(m, field) ==
    LET givers == {i \in AppliedTo(m) : applied[i].options[field] /= None}
    IN IF givers = {} THEN None
       ELSE applied[CHOOSE i \in givers : \A j \in givers : j <= i].options[field]

RouteOf(m) ==
    LET defs == GetRouteDefinitions(routeDefinitions)
    IN defs.routes[RouteIndex(defs, m)]

RouteExists(m) == HasRoute(GetRouteDefinitions(routeDefinitions), m)

NoDuplicates(s) == Cardinality(Range(s)) = Len(s)

\* C1: whatever the order of the decorator applications on a method, the
\* permission set and the auxiliary-middleware set of its RouteDefinition are
\* the unions of the permission strings and of the middleware entries supplied.
C1_CollectionsAreUnionOfSupplied ==
    \A m \in Methods :
        IF RouteExists(m)
        THEN /\ Range(RouteOf(m).permissions) = SuppliedPermissions(m)
             /\ Range(RouteOf(m).otherHttpMiddlewares) = SuppliedMiddlewares(m)
             /\ NoDuplicates(RouteOf(m).permissions)
             /\ NoDuplicates(RouteOf(m).otherHttpMiddlewares)
        ELSE SuppliedPermissions(m) = {} /\ SuppliedMiddlewares(m) = {}

\* two @authorized applications with different lists around another decorator,
\* and a @middleware application, merged into one route
C1_Witness ==
    /\ Len(applied) = 3
    /\ applied[1].options.permissions = << <<"b">> >>
    /\ applied[2].options.otherHttpMiddlewares /= <<>>
    /\ applied[3].options.permissions = << <<"a">> >>
    /\ RouteExists("m1")
    /\ Range(RouteOf("m1").permissions) = {<<"a">>, <<"b">>}
    /\ Len(RouteOf("m1").otherHttpMiddlewares) = 1

\* C2: each scalar field of a route holds the value given by the most recent
\* application that supplied it, in the registry and in the metadata alike;
\* an application that does not supply the field leaves it as it was.
C2_ScalarsLatestSuppliedWins ==
    \A m \in Methods, field \in ScalarFields :
        /\ RouteExists(m) => RouteOf(m)[field] = LastSupplied(m, field)
        /\ ~RouteExists(m) => LastSupplied(m, field) = None
        /\ routeOptionsMeta[m] /= None =>
              ValueOf(routeOptionsMeta[m])[field] = LastSupplied(m, field)

\* authenticated(true), then authenticated(false), then a decorator that
\* supplies no authenticated flag
C2_Witness ==
    /\ Len(applied) = 3
    /\ applied[1].options.authenticated = Some(TRUE)
    /\ applied[2].options.authenticated = Some(FALSE)
    /\ applied[3].options.permissions /= <<>>
    /\ RouteExists("m1")
    /\ RouteOf("m1").authenticated = Some(FALSE)

(***************************************************************************)
(* The registered chains                                                   *)
(***************************************************************************)
OptionsOf(property) == ValueOf(routeOptionsMeta[property])

\* the middleware entry a middleware stage was made from
EntryOf(property, stage) ==
    CHOOSE e \in Range(OptionsOf(property).otherHttpMiddlewares) : e.id = stage.id

\* position of a stage in the order the claim states
ClaimedRank(property, stage) ==
    CASE stage.kind = "validation" -> 1
      [] stage.kind = "middleware" -> IF EntryOf(property, stage).isPre THEN 2 ELSE 5
      [] stage.kind = "authenticated" -> 3
      [] stage.kind = "authorized" -> 4
      [] stage.kind = "handler" -> 6

\* position of a stage in the order: pre-flagged middleware, validation,
\* authentication, authorization, other middleware, handler wrapper
PreFirstRank(property, stage) ==
    CASE stage.kind = "middleware" -> IF EntryOf(property, stage).isPre THEN 1 ELSE 5
      [] stage.kind = "validation" -> 2
      [] stage.kind = "authenticated" -> 3
      [] stage.kind = "authorized" -> 4
      [] stage.kind = "handler" -> 6

StagesOfKind(chain, kind) == {i \in 1..Len(chain) : chain[i].kind = kind}

Misconfigured ==
    \/ Falsy(pathMeta)
    \/ \E m \in Methods :
        /\ routeOptionsMeta[m] /= None
        /\ (Falsy(OptionsOf(m).path) \/ Falsy(OptionsOf(m).method))

Served == req /= None /\ res /= None /\ pc /= None
Finished == Served /\ ValueOf(pc).phase = "done" /\ ~ValueOf(pc).pending404

\* a stage of this kind has run for the request
StageRan(kind) ==
    \E i \in 1..Len(ValueOf(pc).ran) : Chain[ValueOf(pc).ran[i].stage].kind = kind

NotSpace(c) == c /= " "

\* the request carries x-authenticated with one of true, 1, yes, y, in any
\* letter case and with spaces around it
SatisfiedMarker ==
    ToLowerCase(SelectSeq(HeaderString(ValueOf(req), "x-authenticated"), NotSpace))
        \in {<<"t", "r", "u", "e">>, <<"1">>, <<"y", "e", "s">>, <<"y">>}

AuthenticatedRoute == OptionsOf("m1").authenticated = Some(TRUE)

RejectingStages ==
    {k \in 1..Len(Chain) :
        /\ Chain[k].kind = "validation"
        /\ Chain[k].cls = "Strict"
        /\ ValueOf(req).quality[Chain[k].slot] = "bad"}

\* C6: a validation step that runs on a value failing its schema sends 400
\* with ok = false and a non-empty errors list and does not call next; and a
\* request with such a value never reaches the controller method.
C6_FailingValueRejectedWith400 ==
    Served =>
        /\ \A i \in 1..Len(ValueOf(pc).ran) :
              ValueOf(pc).ran[i].stage \in RejectingStages =>
                  /\ ~ValueOf(pc).ran[i].next
                  /\ i = Len(ValueOf(pc).ran)
                  /\ ValueOf(res).headersSent
                  /\ ValueOf(res).statusCode = 400
                  /\ ValueOf(res).body.ok = FALSE
                  /\ ValueOf(res).body.errors /= <<>>
                  /\ ValueOf(res).writes = 1
        /\ RejectingStages /= {} => call = None

\* the headers passed their class, the body failed its own: 400 from the
\* second validation step
C6_Witness ==
    /\ Finished
    /\ Len(ValueOf(pc).ran) >= 2
    /\ ValueOf(pc).ran[Len(ValueOf(pc).ran)].stage \in RejectingStages
    /\ Chain[ValueOf(pc).ran[Len(ValueOf(pc).ran)].stage].slot = "body"
    /\ ValueOf(req).validatedHeaders /= None
    /\ ValueOf(res).statusCode = 400
    /\ ValueOf(res).body.errors /= <<>>

\* the validation steps for a slot that ran and accepted the value
AcceptedBy(slot) ==
    {i \in 1..Len(ValueOf(pc).ran) :
        /\ Chain[ValueOf(pc).ran[i].stage].kind = "validation"
        /\ Chain[ValueOf(pc).ran[i].stage].slot = slot
        /\ ValueOf(pc).ran[i].next}

\* what C7 promises for a declared data slot
PromisedArgument(slot) ==
    IF AcceptedBy(slot) = {} THEN Raw(slot)
    ELSE Instance(slot, Chain[ValueOf(pc).ran[Maximum(AcceptedBy(slot))].stage].cls)

\* C7: at dispatch every declared data slot (body, query, params, headers)
\* receives, at its declared index, the validated instance of the slot when a
\* validation step for it ran and succeeded, and the raw request value otherwise.
C7_DeclaredSlotsReceiveValidatedOrRaw ==
    (Served /\ call /= None) =>
        \A slot \in DataSlots :
            paramMeta["m1"][slot] /= None =>
                /\ Len(ValueOf(call).args) > ValueOf(paramMeta["m1"][slot])
                /\ ValueOf(call).args[ValueOf(paramMeta["m1"][slot]) + 1]
                      = PromisedArgument(slot)

C9_EveryRequestAnswered ==
    (req /= None) ~> (res /= None /\ ValueOf(res).headersSent)

\* the controller method threw, the error reached the boundary handler and
\* the request was answered 500
C9_Witness ==
    /\ Finished
    /\ call /= None
    /\ ValueOf(call).behaviour = Behaviour(FALSE, FALSE, "throw")
    /\ ValueOf(res).headersSent
    /\ ValueOf(res).statusCode = 500

(***************************************************************************)
(* Claims about application startup                                        *)
(***************************************************************************)
\* C11: when building the routes raises a configuration error during
\* App.init, the server is not listening and no traffic is ever accepted.
C11_FailedInitNeverListens ==
    Threw => (server /= "listening" /\ ~traffic)

(***************************************************************************)
(* Claims about the registry across classes                                *)
(***************************************************************************)
\* the classes that exist: defined, or being defined
Existing == defined \cup (IF defining = None THEN {} ELSE {ValueOf(defining)})

\* the object getRouteDefinitions returns for a target, None for one it
\* would have to create
DefinitionsObject(target) == Lookup(ownDefinitions, GetCtor(target))

\* C12: getRouteDefinitions returns the same object for a class, its
\* prototype and its instances, and different objects for two distinct
\* classes, whether or not one extends the other.
C12_OneDefinitionsObjectPerClass ==
    /\ \A t1, t2 \in Targets :
          t1.cls = t2.cls => DefinitionsObject(t1) = DefinitionsObject(t2)
    /\ \A c, d \in Existing :
          (c /= d /\ Lookup(ownDefinitions, c) /= None)
              => Lookup(ownDefinitions, c) /= Lookup(ownDefinitions, d)

(***************************************************************************)
(* Claims about instances and repeated builds                              *)
(***************************************************************************)
\* C13: constructing instances of a controller class and building routers
\* from them, any number of times, leaves the class's route definitions as
\* the decorators made them: no route added or duplicated, no list grown.
C13_ConstructAndBuildLeaveDefinitions ==
    [][/\ \/ routeDefinitions' = routeDefinitions
          \/ routeDefinitions = None /\ routeDefinitions' = Some(EmptyDefinitions)
       /\ routeOptionsMeta' = routeOptionsMeta
       /\ paramMeta' = paramMeta]_vars

\* two instances constructed and two builds made on a class whose route
\* carries permissions and validations
C13_Witness ==
    /\ instances = 2
    /\ builds = 2
    /\ routeDefinitions /= None
    /\ \E i \in 1..Len(ValueOf(routeDefinitions).routes) :
          /\ ValueOf(routeDefinitions).routes[i].permissions /= <<>>
          /\ ValueOf(routeDefinitions).routes[i].validations /= <<>>

(***************************************************************************)
(* Claims about requests in flight together                                *)
(***************************************************************************)
\* the validation stages of the chain for a slot
StagesFor(slot) ==
    {k \in 1..Len(Chain) : Chain[k].kind = "validation" /\ Chain[k].slot = slot}

\* C14: with requests interleaving at the validation step's await and at the
\* handler's awaits, every data argument a request's controller method is
\* called with was made from that request's own slot value: for a validated
\* slot, the instance of the last class validated, made from its own data.
C14_HandlerReceivesOwnValidatedData ==
    \A r \in DOMAIN inflight :
        inflight[r].call /= None =>
            \A slot \in {"body", "query", "params"} :
                paramMeta["m1"][slot] /= None =>
                    LET arg == ValueOf(inflight[r].call).args[ValueOf(paramMeta["m1"][slot]) + 1]
                    IN /\ arg.content = Some(r)
                       /\ arg.slot = slot
                       /\ StagesFor(slot) /= {} =>
                            /\ arg.kind = "instance"
                            /\ arg.cls = Chain[Maximum(StagesFor(slot))].cls

\* the second request was validated and dispatched while the first one was
\* suspended in its validation step
C14_Witness ==
    /\ Len(inflight) >= 2
    /\ inflight[1].phase = "validating"
    /\ inflight[1].local /= None
    /\ inflight[2].call /= None
    /\ ValueOf(inflight[2].call).args[ValueOf(paramMeta["m1"]["body"]) + 1].content = Some(2)

(***************************************************************************)
(* Claims about the request context                                        *)
(***************************************************************************)
\* the executions of request r that are in no runInContext of the request's
\* own code: later middleware, the handler, continuations, the error handler
ExecutionsOf(r) ==
    {t \in DOMAIN tasks : tasks[t].request = Some(r) /\ Len(tasks[t].frames) = 1}

RequestExecutions == UNION {ExecutionsOf(r) : r \in DOMAIN traces}

\* the setContextValue call made by the step, if the step is one
IsCall == calls' /= calls
TheCall == ValueOf(lastCall')

\* what getContextValue(key) returns in execution t after the step
ReadAfter(t, key) ==
    IF tasks'[t].store = None THEN None
    ELSE contexts'[ValueOf(tasks'[t].store)][key]

\* C15: every execution of a request (continuations included) has the context
\* object contextMiddleware created for that request as its store, no two
\* requests have the same context object, and a setContextValue call leaves
\* what every execution of another request reads as it was.
C15_RequestSeesOwnContextOnly ==
    /\ [](\A r \in DOMAIN traces :
            /\ \A t \in ExecutionsOf(r) : tasks[t].store = Some(traces[r].context)
            /\ \A q \in DOMAIN traces : q /= r => traces[q].context /= traces[r].context)
    /\ [][IsCall =>
            \A u \in RequestExecutions :
                tasks[u].request /= tasks[TheCall.task].request =>
                    \A k \in Keys : GetContextValue(u, k)' = GetContextValue(u, k)]_vars

\* request 1 has a continuation, a value it set is read in both of its
\* executions and not in the execution of request 2
C15_Witness ==
    /\ Len(traces) = 2
    /\ \E t \in ExecutionsOf(1) : \E u \in ExecutionsOf(1) : \E w \in ExecutionsOf(2) :
          /\ t /= u
          /\ GetContextValue(t, "user") /= None
          /\ GetContextValue(u, "user") = GetContextValue(t, "user")
          /\ GetContextValue(w, "user") = None

\* C16: in every execution getContext() is the context object of the innermost
\* runInContext call the execution is in, and undefined when it is in none.
C16_InnermostRunIsVisible ==
    \A t \in DOMAIN tasks :
        /\ tasks[t].store =
              IF tasks[t].frames = <<>> THEN None ELSE Some(Last(tasks[t].frames))
        /\ GetContext(t) =
              IF tasks[t].frames = <<>> THEN None
              ELSE Some(contexts[Last(tasks[t].frames)])

\* a nested runInContext has returned and the outer context is read again
C16_Witness ==
    /\ Len(contexts) = 2
    /\ \A u \in DOMAIN tasks : \A i \in DOMAIN tasks[u].frames : tasks[u].frames[i] /= 2
    /\ \E t \in DOMAIN tasks :
          /\ tasks[t].request = None
          /\ tasks[t].frames = <<1>>
          /\ GetContext(t) = Some(contexts[1])

\* C17: a setContextValue call in an execution without store throws the
\* not-in-context error and changes no context object; a call in an execution
\* with a store throws nothing and the key then reads as the value set; in every
\* execution a key that was set reads as the value set last, and outside any
\* context every key reads as undefined.
C17_SetAndGetContextValue ==
    /\ [][IsCall =>
            IF tasks[TheCall.task].store = None
            THEN /\ TheCall.threw = NotInContextError
                 /\ contexts' = contexts
            ELSE /\ TheCall.threw = ""
                 /\ ReadAfter(TheCall.task, TheCall.key) = Some(TheCall.value)]_vars
    /\ [](\A t \in DOMAIN tasks : \A k \in Keys :
            IF tasks[t].store = None
            THEN GetContextValue(t, k) = None
            ELSE latest[ValueOf(tasks[t].store)][k] /= None =>
                    GetContextValue(t, k) = latest[ValueOf(tasks[t].store)][k])

\* after a call outside any context has thrown, a second call has set a key
\* that was present, and the key reads as the new value
C17_Witness ==
    /\ calls = 2
    /\ lastCall /= None
    /\ ValueOf(lastCall).threw = ""
    /\ ValueOf(lastCall).key = "traceId"
    /\ GetContextValue(ValueOf(lastCall).task, "traceId") = Some(ValueOf(lastCall).value)
    /\ \A c \in DOMAIN latest : \A k \in Keys :
          latest[c][k] /= None => latest[c][k] = Some(ValueOf(lastCall).value)

IdsGenerated == {GeneratedIds[i] : i \in 1..generated}

Translated(error, response) ==
    /\ response.headersSent
    /\ IF error.name = "HttpException"
       THEN /\ response.statusCode = error.code
            /\ response.body = Body(error.messageJson, TRUE, <<>>)
       ELSE /\ response.statusCode = 500
            /\ response.body = Body("Some error happen", TRUE, <<>>)

\* C19: whenever the boundary error handler runs for an error forwarded from
\* the route chain, the response afterwards is the JSON answer for that error:
\* status code and messageJson of an HttpException, else 500 with the fixed
\* body, whatever the error was.
C19_BoundaryAnswersEveryError ==
    [][ErrorHandler => Translated(ValueOf(ValueOf(pc).error), ValueOf(res'))]_vars

\* the same for the errors forwarded before anything was written to the response
BoundaryAnswersBeforeAnyWrite ==
    [][(ErrorHandler /\ ~ValueOf(res).headersSent) =>
            Translated(ValueOf(ValueOf(pc).error), ValueOf(res'))]_vars

(***************************************************************************)
(* Claims about a controller without base path                             *)
(***************************************************************************)
\* C20: a class decorated with @controller('') whose routes register without
\* error is built without error by buildApp, and its router is mounted.
C20_EmptyPathControllerIsBuilt ==
    (/\ pathMeta = Some("")
     /\ RegisterRoutes(AllProperties, <<>>).error = None
     /\ buildState /= "none") =>
        (buildState = "built" /\ mounted)

(***************************************************************************)
(* Claims about the order of a stacked method's chain                      *)
(***************************************************************************)
\* the route carries @middleware, @authenticated, @authorized and @validate
Stacked(options) ==
    /\ options.otherHttpMiddlewares /= <<>>
    /\ options.authenticated = Some(TRUE)
    /\ options.permissions /= <<>>
    /\ options.validations /= <<>>

\* position of a stage in the order the documentation gives
DocumentedRank(stage) ==
    CASE stage.kind = "middleware" -> 1
      [] stage.kind = "authenticated" -> 2
      [] stage.kind = "authorized" -> 3
      [] stage.kind = "validation" -> 4
      [] stage.kind = "handler" -> 5

\* position of a stage in the order of the builder of rest.ts
RestRank(stage) ==
    CASE stage.kind = "authenticated" -> 1
      [] stage.kind = "authorized" -> 2
      [] stage.kind = "middleware" -> 3
      [] stage.kind = "validation" -> 4
      [] stage.kind = "handler" -> 5

\* the chain the builder of rest.ts registers for a registered route
RestChainOf(n) ==
    RestRouteChain(OptionsOf(router[n].property), NoIndices)

IsAuthenticated(request) == request.authenticated = Some(TRUE)

\* the authorization stage has run for the request and called next
PassedAuthorization ==
    \E k \in 1..Len(ValueOf(pc).ran) :
        /\ Chain[ValueOf(pc).ran[k].stage].kind = "authorized"
        /\ ValueOf(pc).ran[k].next

\* C22: on a route with required permissions, a request that has not been
\* authenticated never passes the authorization stage and its controller
\* method is never called, whatever permissions it presents.
C22_UnauthenticatedNeverAuthorized ==
    (/\ Served
     /\ OptionsOf("m1").permissions /= <<>>
     /\ ~IsAuthenticated(ValueOf(req))) =>
        (~PassedAuthorization /\ call = None)

\* the guard of the step has called next
GuardCalledNext == ValueOf(pc').phase = "chain" /\ ValueOf(pc').stage = ValueOf(pc).stage + 1

\* the guard of the step has thrown this exception and has not called next
GuardThrew(exception) ==
    ValueOf(pc').phase = "error" /\ ValueOf(pc').error = Some(exception)

\* C23: whenever the authentication guard of a route runs, it calls next if
\* the request's authenticated flag is true, and throws UnauthorizedException
\* without calling next if the flag is absent or false.
C23_GuardFollowsAuthenticatedFlag ==
    [][StepAuthenticated =>
            IF IsAuthenticated(ValueOf(req))
            THEN GuardCalledNext
            ELSE GuardThrew(UnauthorizedException)]_vars

GuardKinds == {"authenticated", "authorized"}

SuppliedValidations(m) ==
    UNION {Range(applied[i].options.validations) : i \in AppliedTo(m)}

\* how often an entry is in a list
Occurrences(list, entry) == Cardinality({i \in 1..Len(list) : list[i] = entry})

\* C25: after any sequence of decorator applications on a method, each
\* collection of its RouteDefinition (validations, permissions, auxiliary
\* middleware) holds every supplied entry exactly once and nothing else.
C25_CollectionsHoldSuppliedOnce ==
    \A m \in Methods :
        RouteExists(m) =>
            /\ \A v \in SuppliedValidations(m) : Occurrences(RouteOf(m).validations, v) = 1
            /\ Range(RouteOf(m).validations) = SuppliedValidations(m)
            /\ \A x \in SuppliedPermissions(m) : Occurrences(RouteOf(m).permissions, x) = 1
            /\ Range(RouteOf(m).permissions) = SuppliedPermissions(m)
            /\ \A e \in SuppliedMiddlewares(m) :
                  Occurrences(RouteOf(m).otherHttpMiddlewares, e) = 1
            /\ Range(RouteOf(m).otherHttpMiddlewares) = SuppliedMiddlewares(m)

\* the same for the route options kept as metadata, which the builder reads
MetadataHoldsSuppliedOnce ==
    \A m \in Methods :
        routeOptionsMeta[m] /= None =>
            /\ \A v \in SuppliedValidations(m) : Occurrences(OptionsOf(m).validations, v) = 1
            /\ Range(OptionsOf(m).validations) = SuppliedValidations(m)

\* two entries made by @middleware with the same handler, pre flag and order
SameArguments(e1, e2) ==
    /\ e1.handler = e2.handler
    /\ e1.isPre = e2.isPre
    /\ e1.order = e2.order

\* C26: applying a decorator again with identical arguments adds nothing: the
\* permission list of a route has no duplicate, its middleware list has no two
\* entries made from the same arguments, and the built chain runs a
\* middleware applied twice with the same arguments only once.
C26_RepeatedDecoratorAddsNothing ==
    \A n \in 1..Len(router) :
        LET options == OptionsOf(router[n].property)
            chain == router[n].chain
        IN /\ NoDuplicates(options.permissions)
           /\ \A e1, e2 \in Range(options.otherHttpMiddlewares) :
                 SameArguments(e1, e2) => e1 = e2
           /\ \A i, j \in StagesOfKind(chain, "middleware") :
                 SameArguments(EntryOf(router[n].property, chain[i]),
                               EntryOf(router[n].property, chain[j])) => i = j

\* the part of C26 about @authorized: the permission list of a RouteDefinition
\* and of the route options never holds a permission twice
RepeatedAuthorizedAddsNothing ==
    \A m \in Methods :
        /\ RouteExists(m) => NoDuplicates(RouteOf(m).permissions)
        /\ routeOptionsMeta[m] /= None => NoDuplicates(OptionsOf(m).permissions)

(***************************************************************************)
(* Claims about the routes list                                            *)
(***************************************************************************)
MethodNames(defs) == [i \in 1..Len(defs.routes) |-> defs.routes[i].methodName]

\* the methods decorated so far, in the order of their first decoration
FirstDecorated == ArrayUnify([i \in 1..Len(applied) |-> applied[i].on])

\* C27: the routes list holds at most one RouteDefinition per methodName, in
\* the order in which the methods were first decorated (by a parameter or a
\* method decorator); getOrCreateRoute leaves the list as it is for a known
\* methodName and for an unknown one appends exactly one entry with empty
\* validations, permissions, middleware and parameter-index map.
C27_OneRoutePerMethodInFirstDecorationOrder ==
    LET defs == GetRouteDefinitions(routeDefinitions)
    IN /\ NoDuplicates(MethodNames(defs))
       /\ MethodNames(defs) = FirstDecorated
       /\ \A m \in Methods :
             LET after == GetOrCreateRoute(defs, m)
                 entry == after.routes[Len(after.routes)]
             IN IF m \in Range(MethodNames(defs))
                THEN after = defs
                ELSE /\ Len(after.routes) = Len(defs.routes) + 1
                     /\ SubSeq(after.routes, 1, Len(defs.routes)) = defs.routes
                     /\ entry.methodName = m
                     /\ entry.validations = <<>>
                     /\ entry.permissions = <<>>
                     /\ entry.otherHttpMiddlewares = <<>>
                     /\ \A slot \in Slots : entry.parameterIndices[slot] = None

\* m2 was decorated first, by a parameter decorator, then m1, then m2 again
C27_Witness ==
    /\ Len(applied) = 3
    /\ applied[1].on = "m2" /\ applied[2].on = "m1" /\ applied[3].on = "m2"
    /\ paramMeta["m2"]["body"] /= None
    /\ routeOptionsMeta["m2"] /= None
    /\ MethodNames(GetRouteDefinitions(routeDefinitions)) = <<"m2", "m1">>

(***************************************************************************)
(* Claims about the validation steps of a built chain                      *)
(***************************************************************************)
ValidationStagesOn(chain, slot) ==
    {i \in StagesOfKind(chain, "validation") : chain[i].slot = slot}

\* C28: a built route has at most one validation step per slot (params,
\* query, body, headers), even when several validation specs name the slot.
C28_OneValidationStepPerSlot ==
    \A n \in 1..Len(router) :
        \A slot \in DataSlots :
            Cardinality(ValidationStagesOn(router[n].chain, slot)) <= 1

SlotPosition(slot) == CHOOSE k \in 1..Len(ValidationOrder) : ValidationOrder[k] = slot

\* C29: the validation steps of a built route stand in the fixed slot order
\* params, query, body, headers, whatever the order of the slots in the
\* validation specs.
C29_ValidationStepsInSlotOrder ==
    \A n \in 1..Len(router) :
        LET chain == router[n].chain
        IN \A i, j \in StagesOfKind(chain, "validation") :
              i < j => SlotPosition(chain[i].slot) <= SlotPosition(chain[j].slot)

(***************************************************************************)
(* Claims about the pre-flagged middleware of a built chain                *)
(***************************************************************************)
\* Decorators are applied bottom-up and httpMethod puts the new entry in
\* front of the stored ones: of two entries on one method, the one applied
\* later is the one declared higher up.
DeclaredBefore(e1, e2) == e1.id > e2.id

PreStages(property, chain) ==
    {i \in StagesOfKind(chain, "middleware") : EntryOf(property, chain[i]).isPre}

\* C30: in every built route the pre-flagged middleware entries stand in
\* ascending order of their order number, and two pre-flagged entries of
\* equal order number stand in their declaration order.
C30_PreStagesAscendingThenDeclared ==
    \A n \in 1..Len(router) :
        LET property == router[n].property
            chain == router[n].chain
        IN \A i, j \in PreStages(property, chain) :
              i < j =>
                 LET e1 == EntryOf(property, chain[i])
                     e2 == EntryOf(property, chain[j])
                 IN /\ e1.order <= e2.order
                    /\ e1.order = e2.order => DeclaredBefore(e1, e2)

\* a built route with two pre-flagged entries of equal order number
C30_Witness ==
    \E n \in 1..Len(router) :
        \E i, j \in PreStages(router[n].property, router[n].chain) :
            /\ i < j
            /\ EntryOf(router[n].property, router[n].chain[i]).order
                  = EntryOf(router[n].property, router[n].chain[j]).order

\* a built route with two pre-flagged entries whose order numbers differ from
\* the order of their declaration
PreStagesReordered ==
    \E n \in 1..Len(router) :
        \E i, j \in PreStages(router[n].property, router[n].chain) :
            /\ i < j
            /\ ~DeclaredBefore(EntryOf(router[n].property, router[n].chain[i]),
                               EntryOf(router[n].property, router[n].chain[j]))

(***************************************************************************)
(* Claims about the other middleware of a built chain                      *)
(***************************************************************************)
NormalStages(property, chain) ==
    {i \in StagesOfKind(chain, "middleware") : ~EntryOf(property, chain[i]).isPre}

\* C31: in every built route the middleware entries without the pre flag
\* stand in declaration order, top to bottom as written (the reverse of the
\* order in which the decorators are applied), whatever their order numbers,
\* and all of them stand before the handler.
C31_NormalStagesInDeclarationOrder ==
    \A n \in 1..Len(router) :
        LET property == router[n].property
            chain == router[n].chain
        IN /\ \A i, j \in NormalStages(property, chain) :
                 i < j => DeclaredBefore(EntryOf(property, chain[i]),
                                         EntryOf(property, chain[j]))
           /\ \A i \in NormalStages(property, chain) :
                 \A h \in StagesOfKind(chain, "handler") : i < h

\* a built route with two middleware entries without the pre flag, the one
\* declared higher up with the larger order number
C31_Witness ==
    \E n \in 1..Len(router) :
        \E i, j \in NormalStages(router[n].property, router[n].chain) :
            /\ i < j
            /\ EntryOf(router[n].property, router[n].chain[i]).order
                  > EntryOf(router[n].property, router[n].chain[j]).order

(***************************************************************************)
(* Claims about the handler wrapper                                        *)
(***************************************************************************)
DeclaredSlots == {slot \in Slots : paramMeta["m1"][slot] /= None}
DeclaredIndex(slot) == ValueOf(paramMeta["m1"][slot])

\* the value a declared slot stands for
SlotValue(slot) ==
    IF slot \in DataSlots THEN PromisedArgument(slot) ELSE Handle(slot)

\* C32: the controller method is called with an argument array of length
\* (largest declared parameter index + 1) in which the value of every declared
\* slot sits at its declared index and every other index is undefined; a
\* method that declares no slot is called with (req, res, next).
C32_ArgumentsFollowDeclaredIndexes ==
    (Served /\ call /= None) =>
        LET args == ValueOf(call).args
        IN IF DeclaredSlots = {}
           THEN args = <<Handle("req"), Handle("res"), Handle("next")>>
           ELSE /\ Len(args) = Maximum({DeclaredIndex(slot) : slot \in DeclaredSlots}) + 1
                /\ \A slot \in DeclaredSlots :
                      /\ DeclaredIndex(slot) + 1 \in 1..Len(args)
                      /\ args[DeclaredIndex(slot) + 1] = SlotValue(slot)
                /\ \A j \in 1..Len(args) :
                      (\A slot \in DeclaredSlots : DeclaredIndex(slot) + 1 /= j)
                          => args[j] = Undefined

\* the same for the slots the wrapper marshals (req, res, next, body, query,
\* params)
MarshalledArgumentsFollowDeclaredIndexes ==
    (Served /\ call /= None) =>
        LET args == ValueOf(call).args
            marshalled == DeclaredSlots \cap MarshalledSlots
        IN IF marshalled = {}
           THEN args = <<Handle("req"), Handle("res"), Handle("next")>>
           ELSE /\ Len(args) = Maximum({DeclaredIndex(slot) : slot \in marshalled}) + 1
                /\ \A slot \in marshalled :
                      args[DeclaredIndex(slot) + 1] = SlotValue(slot)
                /\ \A j \in 1..Len(args) :
                      (\A slot \in marshalled : DeclaredIndex(slot) + 1 /= j)
                          => args[j] = Undefined

\* the step in which the awaited controller method has ended and the wrapper
\* deals with what it returned or threw
WrapperCompletes ==
    /\ pc /= None /\ pc' /= None
    /\ ValueOf(pc).phase = "returning"
    /\ ValueOf(pc').phase /= "returning"

\* C33: when the controller method has returned a value with a callable
\* build, the wrapper calls build(res) exactly once and serializes nothing
\* itself; for any other value it sends the value as JSON with status 200
\* exactly when no response has been sent yet, and otherwise sends nothing.
C33_BuilderBuiltOncePlainValueSentIfUnsent ==
    [][WrapperCompletes =>
          LET outcome == ValueOf(pc).outcome
              before == ValueOf(res)
              after == ValueOf(res')
          IN /\ outcome = "builder" =>
                  /\ after.writes = before.writes + 1
                  /\ after.body.kind /= "result"
                  /\ ~before.headersSent =>
                        after.headersSent /\ after.body.kind = "builder"
             /\ outcome = "value" =>
                  IF before.headersSent THEN after = before
                  ELSE /\ after.headersSent
                       /\ after.statusCode = 200
                       /\ after.body.kind = "result"
                       /\ after.writes = before.writes + 1]_vars

\* the method answered the request itself and returned a plain value; the
\* wrapper has completed and the method's answer is the only write
C33_Witness ==
    /\ Finished
    /\ call /= None
    /\ ValueOf(call).behaviour = Behaviour(TRUE, FALSE, "value")
    /\ ValueOf(res).body.kind = "own"
    /\ ValueOf(res).writes = 1

\* C34: when the controller method throws or its promise rejects, the wrapper
\* passes that error to next(error), once, and writes nothing to the response
\* itself: the error is not serialized as the route's JSON result.
C34_HandlerErrorForwardedNotSerialized ==
    [][(WrapperCompletes /\ ValueOf(pc).outcome = "throw") =>
          /\ res' = res
          /\ ValueOf(pc').phase = "error"
          /\ ValueOf(pc').error = Some(PlainError("handler"))
          /\ Len(ValueOf(pc').ran) = Len(ValueOf(pc).ran) + 1
          /\ ~ValueOf(pc').ran[Len(ValueOf(pc').ran)].next]_vars

\* the method threw without having written: its error is on the way to the
\* error-handling stage and the response is untouched
C34_Witness ==
    /\ Served
    /\ call /= None
    /\ ValueOf(call).behaviour.outcome = "throw"
    /\ ValueOf(pc).phase = "error"
    /\ ValueOf(pc).error = Some(PlainError("handler"))
    /\ ValueOf(res) = FreshResponse

(***************************************************************************)
(* Claims about what a validation step leaves on the request               *)
(***************************************************************************)
\* the step in which a validation stage has accepted the value and called next
ValidationSucceeds ==
    /\ AtStage("validation")
    /\ pc' /= None
    /\ ValueOf(pc').phase = "chain"
    /\ ValueOf(pc').stage = ValueOf(pc).stage + 1

\* the request's own value of a slot: req.body, req.query, req.params, req.headers
OwnValue(request, slot) ==
    IF slot = "headers" THEN request.headers ELSE request.data[slot]

\* the separate result location of a slot; the step defines validatedHeaders
\* and never validatedBody, validatedQuery or validatedParams
ValidatedResult(request, slot) ==
    IF slot = "headers" THEN request.validatedHeaders ELSE None

\* C35: when a validation step succeeds for a slot, the request's own value
\* of the slot is what it was before the step, and the transformed instance
\* is in the slot's separate result location on the request.
C35_RawKeptInstanceStoredApart ==
    [][ValidationSucceeds =>
          LET slot == CurrentStage.slot
          IN /\ OwnValue(ValueOf(req'), slot) = OwnValue(ValueOf(req), slot)
             /\ ValidatedResult(ValueOf(req'), slot) /= None
             /\ ValueOf(ValidatedResult(ValueOf(req'), slot)).kind = "instance"]_vars

\* the same for the validation steps on the headers slot alone
HeadersKeptInstanceStoredApart ==
    [][(ValidationSucceeds /\ CurrentStage.slot = "headers") =>
          /\ ValueOf(req').headers = ValueOf(req).headers
          /\ ValueOf(req').validatedHeaders /= None
          /\ ValueOf(ValueOf(req').validatedHeaders).kind = "instance"]_vars

\* a succeeding validation step on the headers slot has been taken
HeadersValidated ==
    /\ Served
    /\ ValueOf(req).validatedHeaders /= None

(***************************************************************************)
(* Claims about extra data                                                 *)
(***************************************************************************)
Fields(value) == value.fields

\* C36: a custom decorator whose key has no value yet stores its value; one
\* whose key has a value stores the de-duplicated union when both values are
\* arrays, the shallow merge with the new properties winning when both are
\* plain objects, and the new value in every other combination; it never throws.
C36_ExtraDataMergedByKind ==
    lastCustom /= None =>
        LET key == ValueOf(lastCustom).key
            new == ValueOf(lastCustom).value
            met == ValueOf(lastCustom).met
        IN /\ customError = None
           /\ extraData[key] /= None
           /\ IF met = None THEN extraData[key] = Some(new)
              ELSE IF IsArray(ValueOf(met)) /\ IsArray(new)
              THEN /\ IsArray(ValueOf(extraData[key]))
                   /\ NoDuplicates(ValueOf(extraData[key]).items)
                   /\ Range(ValueOf(extraData[key]).items)
                         = Range(ValueOf(met).items) \cup Range(new.items)
              ELSE IF IsPlainObject(ValueOf(met)) /\ IsPlainObject(new)
              THEN /\ IsPlainObject(ValueOf(extraData[key]))
                   /\ Fields(new) \subseteq Fields(ValueOf(extraData[key]))
                   /\ \A f \in Fields(ValueOf(extraData[key])) :
                         f \in Fields(new) \/ f \in Fields(ValueOf(met))
                   /\ \A f, g \in Fields(ValueOf(extraData[key])) : f[1] = g[1] => f = g
              ELSE extraData[key] = Some(new)

\* the same where the value already stored is not an array
ExtraDataMergedUnlessArrayMet ==
    (lastCustom /= None /\ ~(ValueOf(lastCustom).met /= None
                             /\ IsArray(ValueOf(ValueOf(lastCustom).met))
                             /\ ~IsArray(ValueOf(lastCustom).value))) =>
        C36_ExtraDataMergedByKind

(***************************************************************************)
(* Claims relating the registry to the metadata and to the router          *)
(***************************************************************************)
\* C37: after any sequence of decorator applications, the RouteDefinition of
\* a method in the registry and the RouteOptions of the method in the
\* metadata agree: same method, path, name and authenticated flag, same set
\* of permissions, same set of auxiliary middleware, same list of validation
\* specs.
C37_RegistryAgreesWithMetadata ==
    \A m \in Methods :
        (RouteExists(m) /\ routeOptionsMeta[m] /= None) =>
            /\ \A field \in ScalarFields : RouteOf(m)[field] = OptionsOf(m)[field]
            /\ Range(RouteOf(m).permissions) = Range(OptionsOf(m).permissions)
            /\ Range(RouteOf(m).otherHttpMiddlewares)
                  = Range(OptionsOf(m).otherHttpMiddlewares)
            /\ RouteOf(m).validations = OptionsOf(m).validations

\* the same with the validation specs compared as sets
RegistryAgreesWithMetadataUpToRepetition ==
    \A m \in Methods :
        (RouteExists(m) /\ routeOptionsMeta[m] /= None) =>
            /\ \A field \in ScalarFields : RouteOf(m)[field] = OptionsOf(m)[field]
            /\ Range(RouteOf(m).permissions) = Range(OptionsOf(m).permissions)
            /\ Range(RouteOf(m).otherHttpMiddlewares)
                  = Range(OptionsOf(m).otherHttpMiddlewares)
            /\ Range(RouteOf(m).validations) = Range(OptionsOf(m).validations)

\* a route of the router and a RouteDefinition of the registry that describe
\* the same route: same method name, verb and path
SameRoute(registered, definition) ==
    /\ registered.property = definition.methodName
    /\ Some(registered.method) = definition.method
    /\ Some(registered.path) = definition.path

\* C38: after buildRouterFromController has succeeded, the routes registered
\* with the router correspond one-to-one to the RouteDefinitions of the
\* class's registry entry: every RouteDefinition is registered (a build that
\* succeeded met no construction error) and every registered route is listed.
C38_RouterMatchesRegistry ==
    buildState = "built" =>
        LET routes == GetRouteDefinitions(routeDefinitions).routes
        IN /\ \A i \in 1..Len(routes) :
                 \E n \in 1..Len(router) : SameRoute(router[n], routes[i])
           /\ \A n \in 1..Len(router) :
                 \E i \in 1..Len(routes) : SameRoute(router[n], routes[i])
           /\ Len(router) = Len(routes)

\* every registered route is listed by the registry, once, and every listed
\* route that a method decorator was applied to is registered
RegisteredRoutesAreListed ==
    buildState = "built" =>
        LET routes == GetRouteDefinitions(routeDefinitions).routes
        IN /\ \A n \in 1..Len(router) :
                 Cardinality({i \in 1..Len(routes) : SameRoute(router[n], routes[i])}) = 1
           /\ \A i \in 1..Len(routes) :
                 routeOptionsMeta[routes[i].methodName] /= None =>
                    \E n \in 1..Len(router) : SameRoute(router[n], routes[i])

(***************************************************************************)
(* Claims about the container                                              *)
(***************************************************************************)
BindingsOf(entry) ==
    {j \in 1..Len(bindings) :
        bindings[j].token = entry.token /\ bindings[j].target = entry.target}

\* C39: however many times bindDiscovered is called, every entry registered
\* through autoBind is bound in the container at most once, so that
\* container.getAll(IController) resolves each auto-bound controller once.
C39_DiscoveredBoundAtMostOnce ==
    /\ \A i \in 1..Len(discovered) : Cardinality(BindingsOf(discovered[i])) <= 1
    /\ NoDuplicates(GetAll(bindings, "IController"))

\* the same for the entries of Singleton scope alone
SingletonsBoundAtMostOnce ==
    \A i \in 1..Len(discovered) :
        discovered[i].scope = "Singleton" => Cardinality(BindingsOf(discovered[i])) <= 1

\* bindDiscovered has been called twice with a Singleton entry registered
SingletonSeenTwice ==
    /\ bindCalls = 2
    /\ \E i \in 1..Len(discovered) :
          discovered[i].scope = "Singleton" /\ BindingsOf(discovered[i]) /= {}

====
